---- MODULE Spec2Model ----
(***************************************************************************)
(* k-releaser: release engine of a cargo workspace.                        *)
(*                                                                         *)
(* The module holds one state machine per command of the engine:           *)
(*   SpecVersion    the version resolver (crate next_version)              *)
(*   SpecChangelog  changelog synthesis (get_workspace_changelog)          *)
(*   SpecUpdate     the commit stream collected by `update`                *)
(*   SpecPublish    the `publish` command                                  *)
(*   SpecRelease    the `release` command                                  *)
(*   SpecExtract    the changelog embedded in the release PR body          *)
(*   SpecConfig     the configuration loader                               *)
(*   SpecHistory    the commit limit of `update`                           *)
(*   SpecContributors  contributors_from_commits                          *)
(*   SpecLabels     GitClient::add_labels                                  *)
(*   SpecBody       the changelog of the release body                      *)
(*   SpecFill       the publish request built from the configuration       *)
(*   SpecEdit       GitClient::edit_pr and close_pr                        *)
(* Each specification leaves the variables of the other commands idle.     *)
(***************************************************************************)
EXTENDS Integers, Sequences, FiniteSets, TLC

None == "None"

\* ------------------------------------------------------------------------
\* Bounds of the model
\* ------------------------------------------------------------------------
MaxVer == 1
MaxCommits == 2
MaxRepoCommits == 5
MaxSections == 2
MaxPrs == 1
MaxPrCommits == 1
MaxRuns == 2
MaxBody == 3
MaxHistory == 1002
MaxAuthored == 4
MaxLabels == 2
MaxCalls == 2

\* ------------------------------------------------------------------------
\* State
\* ------------------------------------------------------------------------
VARIABLES
    current_version,    \* the version V the resolver starts from
    commits,            \* the commit messages handed to the resolver
    version_updater,    \* the VersionUpdater options
    version_increment,  \* Option<VersionIncrement> computed by the resolver
    next_version,       \* the version VersionUpdater::increment returns
    vpc                 \* "idle" | "start" | "done"

versionVars ==
    <<current_version, commits, version_updater, version_increment, next_version, vpc>>

VARIABLES
    parents,            \* commit -> sequence of its parents (first parent first)
    message,            \* commit -> full commit message
    branch_head,        \* branch -> commit it points to (NoCommit: no such branch)
    current_branch,     \* the branch that is checked out
    tag_commit,         \* commit of the tag of the manifest version, or NoCommit
    max_analyze_commits,\* option of the update request
    release_commits,    \* release_commits regex: set of commit types it matches
    collected,          \* result of get_all_commits_since_tag
    all_commits,        \* the commit stream after the release_commits filter
    workspace_version,  \* result of calculate_unified_workspace_version
    manifest_version,   \* version in Cargo.toml
    upc                 \* "idle" | "repo" | "done"

updateVars ==
    <<parents, message, branch_head, current_branch, tag_commit, max_analyze_commits,
      release_commits, collected, all_commits, workspace_version, manifest_version, upc>>

VARIABLES
    cl_commits,          \* commits of the new entry
    cl_next_version,     \* next_version
    cl_current_version,  \* current_version of the workspace
    changelog_req,       \* Option<ChangelogRequest>
    old_changelog,       \* Option<&str>: the existing CHANGELOG.md
    cl_result,           \* (full changelog, new entry) once synthesis has run
    cpc                  \* "idle" | "start" | "done"

changelogVars ==
    <<cl_commits, cl_next_version, cl_current_version, changelog_req, old_changelog,
      cl_result, cpc>>

VARIABLES
    manifest_publish,     \* package -> `publish` field of its Cargo.toml
    request_registry,     \* PublishRequest.registry
    dry_run,              \* PublishRequest.dry_run
    default_publish,      \* packages_config.default.publish
    overrides,            \* packages_config.overrides: package -> Option<publish>
    token_setup,          \* PublishRequest.token, credentials, GITHUB_ACTIONS
    ppc,                  \* position of the publish command
    packages,             \* project.publishable_packages()
    pkg_idx,              \* package of the loop in publish
    reg_idx,              \* registry of the loop in publish_package_if_needed
    package_was_published,
    index_used,           \* index returned by is_package_published
    package_publishes,    \* Vec<PackagePublish>
    output,               \* Option<PublishOutput> returned by publish
    pub_error,            \* error the command failed with
    queried,              \* index lookups made by the published check
    found_published,      \* (package, registry) the published check found present
    invoked,              \* cargo publish subprocesses started
    uploaded,             \* (package, registry) cargo publish uploaded
    settled,              \* (package, registry) wait_until_published saw
    polled,               \* index polls of wait_until_published
    cmd_output,           \* output of cargo publish in publish_package_to_registry
    tp_client,            \* trusted_publishing_client
    tp_acquired,          \* trusted publishing tokens requested
    tp_revocations        \* revoke_token calls

publishConfigVars ==
    <<manifest_publish, request_registry, dry_run, default_publish, overrides, token_setup>>

publishLoopVars ==
    <<packages, pkg_idx, reg_idx, package_was_published, index_used, package_publishes>>

publishHistoryVars ==
    <<queried, found_published, invoked, uploaded, settled, polled, cmd_output>>

publishVars ==
    <<publishConfigVars, publishLoopVars, publishHistoryVars, ppc, output, pub_error,
      tp_client, tp_acquired, tp_revocations>>

VARIABLES
    associated_prs,           \* answer of git_client.associated_prs
    pr_commits,               \* answer of git_client.pr_commits for the release PR
    original_branch_commits,  \* commits that are on the original branch
    release_always,
    rel_dry_run,              \* ReleaseRequest.dry_run
    rel_workspace,            \* publishable packages and their versions
    rel_config,               \* release configuration
    rpc,                      \* position of the release command
    decision,                 \* ShouldRelease
    repo_head,                \* commit checked out in the repository
    checkout_done,
    checkouts,                \* targets of the repo.checkout calls, in order
    restore_ok,               \* outcome of the checkout of "-"
    rel_idx,                  \* package of the loop in release_packages
    local_tags,               \* tags in the local repository
    remote_tags,              \* tags on the forge
    forge_releases,           \* forge releases, by tag
    package_releases,         \* Vec<PackageRelease>
    release_result,           \* result of release_packages
    rel_return,               \* what release returns
    rel_runs,                 \* number of the run of the command on this commit
    forge_calls,              \* tag and release creations issued, in order
    release_names,            \* release_name of the forge releases requested, in order
    dry_run_log               \* what log_dry_run_info has logged

releaseConfigVars ==
    <<associated_prs, pr_commits, original_branch_commits, release_always, rel_dry_run,
      rel_workspace, rel_config>>

releaseRepoVars == <<repo_head, checkout_done, checkouts, restore_ok>>

releaseForgeVars == <<local_tags, remote_tags, forge_releases>>

releaseHistoryVars == <<rel_runs, forge_calls, release_names, dry_run_log>>

releaseVars ==
    <<releaseConfigVars, releaseRepoVars, releaseForgeVars, releaseHistoryVars, rpc,
      decision, rel_idx, package_releases, release_result, rel_return>>

VARIABLES
    changelog_body,           \* the changelog embedded in the release PR body
    pr_body,                  \* the body of the release PR
    extracted_changelog,      \* what extract_changelog_from_pr_body returns
    xpc                       \* "idle" | "start" | "rendered" | "done"

extractVars == <<changelog_body, pr_body, extracted_changelog, xpc>>

VARIABLES
    config_path,              \* ConfigPath.path: the --config option
    manifest_path,            \* the --manifest-path option
    files,                    \* path -> what the file system holds there
    loaded_config,            \* what the loader returned
    kpc                       \* "idle" | "start" | "done"

configVars == <<config_path, manifest_path, files, loaded_config, kpc>>

VARIABLES
    history_len,              \* commits on the first-parent line of HEAD
    analyze_option,           \* max_analyze_commits of the update request
    collected_count,          \* number of commits get_all_commits_since_tag returns
    hpc                       \* "idle" | "start" | "done"

historyVars == <<history_len, analyze_option, collected_count, hpc>>

VARIABLES
    contrib_commits,          \* the commits of a PR, as the forge lists them
    contrib_forge,            \* ForgeType
    contributors,             \* what contributors_from_commits returns
    bpc                       \* "idle" | "start" | "done"

contributorsVars == <<contrib_commits, contrib_forge, contributors, bpc>>

VARIABLES
    label_request,            \* labels: the labels add_labels is called with
    repo_labels,              \* labels of the repository on the forge
    pr_labels,                \* labels attached to the PR on the forge
    labels_to_create,         \* local of post_gitea_labels
    label_ids,                \* local of post_gitea_labels
    labels_created,           \* labels created on the forge, in order
    labels_before,            \* repo_labels and pr_labels when the call started
    label_results,            \* what the calls of add_labels returned, in order
    lpc                       \* position in add_labels

labelsVars ==
    <<label_request, repo_labels, pr_labels, labels_to_create, label_ids,
      labels_created, labels_before, label_results, lpc>>

VARIABLES
    body_mode,                \* "unified" | "per_package": the branch of release_packages
    body_changelog_update,    \* changelog_update of the package configuration
    file_entry,               \* answer of changelog_parser::last_changes
    body_prs,                 \* answer of git_client.associated_prs
    release_changelog,        \* ReleaseInfo.changelog, or the error of the release
    ypc                       \* "idle" | "start" | "done"

bodyVars ==
    <<body_mode, body_changelog_update, file_entry, body_prs, release_changelog, ypc>>

VARIABLES
    config_packages,          \* package -> Option<PackageConfig> of its `[[package]]` section
    packages_defaults,        \* workspace.packages_defaults
    cli_flags,                \* --allow-dirty and --no-verify of the publish command
    cargo_publish,            \* package -> `publish` field of its Cargo.toml
    packages_config,          \* Option<PackagesConfig> of the request that was built
    fields_check,             \* Option<package>: what check_publish_fields complains about
    fpc                       \* "idle" | "start" | "filled" | "passed" | "failed"

fillVars ==
    <<config_packages, packages_defaults, cli_flags, cargo_publish, packages_config,
      fields_check, fpc>>

VARIABLES
    edit_forge,               \* ForgeType of the client
    edit_op,                  \* "edit_pr" | "close_pr": the method that was called
    pr_open,                  \* whether the PR is open on the forge
    responses,                \* what the attempts of the request got, in order
    edit_result,              \* what the method returned
    closed_logged,            \* whether `closed pr #n` was logged
    epc                       \* "idle" | "start" | "sending" | "responded" | "done"

editVars == <<edit_forge, edit_op, pr_open, responses, edit_result, closed_logged, epc>>

\* The state of the operations modelled on their own.
auxVars == <<configVars, historyVars, contributorsVars, labelsVars, bodyVars, fillVars, editVars>>

vars ==
    <<versionVars, updateVars, changelogVars, publishVars, releaseVars, extractVars,
      auxVars>>

commandVars ==
    <<versionVars, updateVars, changelogVars, publishVars, releaseVars, extractVars>>

\* Each command leaves the state of the other commands alone.
VersionFrame ==
    UNCHANGED <<updateVars, changelogVars, publishVars, releaseVars, extractVars, auxVars>>

UpdateFrame ==
    UNCHANGED <<versionVars, changelogVars, publishVars, releaseVars, extractVars, auxVars>>

ChangelogFrame ==
    UNCHANGED <<versionVars, updateVars, publishVars, releaseVars, extractVars, auxVars>>

PublishFrame ==
    UNCHANGED <<versionVars, updateVars, changelogVars, releaseVars, extractVars, auxVars>>

ReleaseFrame ==
    UNCHANGED <<versionVars, updateVars, changelogVars, publishVars, extractVars, auxVars>>

ExtractFrame ==
    UNCHANGED <<versionVars, updateVars, changelogVars, publishVars, releaseVars, auxVars>>

ConfigFrame ==
    UNCHANGED <<commandVars, historyVars, contributorsVars, labelsVars, bodyVars, fillVars, editVars>>

HistoryFrame ==
    UNCHANGED <<commandVars, configVars, contributorsVars, labelsVars, bodyVars, fillVars, editVars>>

ContributorsFrame ==
    UNCHANGED <<commandVars, configVars, historyVars, labelsVars, bodyVars, fillVars, editVars>>

LabelsFrame ==
    UNCHANGED <<commandVars, configVars, historyVars, contributorsVars, bodyVars, fillVars, editVars>>

BodyFrame ==
    UNCHANGED <<commandVars, configVars, historyVars, contributorsVars, labelsVars, fillVars, editVars>>

FillFrame ==
    UNCHANGED <<commandVars, configVars, historyVars, contributorsVars, labelsVars, bodyVars, editVars>>

EditFrame ==
    UNCHANGED <<commandVars, configVars, historyVars, contributorsVars, labelsVars, bodyVars, fillVars>>

\* ------------------------------------------------------------------------
\* Commit messages.  A message is a sequence of lines; a line is a record.
\* ------------------------------------------------------------------------
Subject(t, b) == [k |-> "subject", type |-> t, bang |-> b]
Text == [k |-> "text", type |-> "", bang |-> FALSE]
Blank == [k |-> "blank", type |-> "", bang |-> FALSE]
BreakingFooter == [k |-> "breaking_footer", type |-> "", bang |-> FALSE]

IrrelevantTypes == {"docs", "style", "refactor", "perf", "test", "chore", "ci"}
Types == {"feat", "fix", "custom"} \cup IrrelevantTypes

\* The messages the model draws commits from, in a fixed order.  The
\* irrelevant types are only ever tested for membership in IrrelevantTypes,
\* so `chore` stands for all seven of them.
MessageList ==
    << <<Subject("feat", FALSE)>>,
       <<Subject("fix", FALSE)>>,
       <<Subject("custom", FALSE)>>,
       <<Subject("chore", FALSE)>>,
       <<Subject("feat", TRUE)>>,
       <<Subject("chore", TRUE)>>,
       <<Subject("fix", FALSE), Blank, BreakingFooter>>,
       <<Subject("feat", FALSE), Blank, Text>>,
       <<Subject("feat", FALSE), Text>>,
       <<Text>> >>

Messages == {MessageList[i] : i \in 1..Len(MessageList)}

\* git_conventional::Commit::parse: the first line must be `type[!]: text`
\* and a body must be separated from it by a blank line.
ParseOk(msg) ==
    /\ Len(msg) >= 1
    /\ msg[1].k = "subject"
    /\ (Len(msg) >= 2 => msg[2].k = "blank")

\* Commit::type_ and Commit::breaking of a message that parses.
CommitType(msg) == msg[1].type

CommitBreaking(msg) ==
    \/ msg[1].bang
    \/ \E i \in 3..Len(msg) : msg[i].k = "breaking_footer"

RECURSIVE FilterSeq(_, _)
FilterSeq(s, keep) ==
    IF s = <<>> THEN <<>>
    ELSE IF Head(s) \in keep THEN <<Head(s)>> \o FilterSeq(Tail(s), keep)
    ELSE FilterSeq(Tail(s), keep)

\* ------------------------------------------------------------------------
\* Versions: semver triple plus pre-release tag (0 = no tag, n = `rc.n`).
\* ------------------------------------------------------------------------
Version(ma, mi, pa, pr) == [major |-> ma, minor |-> mi, patch |-> pa, pre |-> pr]

Versions ==
    {Version(ma, mi, pa, pr) : ma \in 0..MaxVer, mi \in 0..MaxVer,
                               pa \in 0..MaxVer, pr \in 0..1}

Triple(v) == <<v.major, v.minor, v.patch>>

TripleLess(a, b) ==
    \/ a.major < b.major
    \/ a.major = b.major /\ a.minor < b.minor
    \/ a.major = b.major /\ a.minor = b.minor /\ a.patch < b.patch

increment_major(v) == Version(v.major + 1, 0, 0, 0)
increment_minor(v) == Version(v.major, v.minor + 1, 0, 0)
increment_patch(v) == Version(v.major, v.minor, v.patch + 1, 0)
increment_prerelease(v) == Version(v.major, v.minor, v.patch, v.pre + 1)

\* ------------------------------------------------------------------------
\* VersionUpdater: the options of the version resolver.  A regex is the set
\* of commit types it matches; an option that is not set is NoRegex.
\* ------------------------------------------------------------------------
NoRegex == {}

Regexes == {NoRegex, {"custom"}}

Updaters ==
    [features_always_increment_minor : BOOLEAN,
     breaking_always_increment_major : BOOLEAN,
     custom_major_increment_regex : Regexes,
     custom_minor_increment_regex : Regexes]

is_there_a_custom_match(regex, cs) ==
    /\ regex # NoRegex
    /\ \E i \in 1..Len(cs) : CommitType(cs[i]) \in regex

breaking(current) ==
    IF current.pre # 0 THEN "Prerelease"
    ELSE IF current.major = 0 /\ current.minor = 0 THEN "Patch"
    ELSE IF current.major = 0 THEN "Minor"
    ELSE "Major"

\* from_conventional_commits without the pre-1.0 breaking rule (0.y.z -> minor).
from_conventional_commits_no_breaking_minor(current, cs, updater) ==
    LET is_there_a_feature == \E i \in 1..Len(cs) : CommitType(cs[i]) = "feat"
        is_there_a_breaking_change == \E i \in 1..Len(cs) : CommitBreaking(cs[i])
        is_major_bump ==
            /\ \/ is_there_a_breaking_change
               \/ is_there_a_custom_match(updater.custom_major_increment_regex, cs)
            /\ (current.major # 0 \/ updater.breaking_always_increment_major)
        is_feat_bump ==
            /\ is_there_a_feature
            /\ (current.major # 0 \/ updater.features_always_increment_minor)
        is_minor_bump ==
            \/ is_feat_bump
            \/ is_there_a_custom_match(updater.custom_minor_increment_regex, cs)
    IN  IF is_major_bump THEN "Major"
        ELSE IF is_minor_bump THEN "Minor"
        ELSE "Patch"

from_conventional_commits(current, cs, updater) ==
    LET is_there_a_feature == \E i \in 1..Len(cs) : CommitType(cs[i]) = "feat"
        is_there_a_breaking_change == \E i \in 1..Len(cs) : CommitBreaking(cs[i])
        is_major_bump ==
            /\ \/ is_there_a_breaking_change
               \/ is_there_a_custom_match(updater.custom_major_increment_regex, cs)
            /\ (current.major # 0 \/ updater.breaking_always_increment_major)
        is_feat_bump ==
            /\ is_there_a_feature
            /\ (current.major # 0 \/ updater.features_always_increment_minor)
        is_breaking_bump ==
            current.major = 0 /\ current.minor # 0 /\ is_there_a_breaking_change
        is_minor_bump ==
            \/ is_feat_bump
            \/ is_breaking_bump
            \/ is_there_a_custom_match(updater.custom_minor_increment_regex, cs)
    IN  IF is_major_bump THEN "Major"
        ELSE IF is_minor_bump THEN "Minor"
        ELSE "Patch"

\* RelevantMessages without "always include breaking changes".
RelevantMessagesByTypeOnly ==
    {m \in Messages : ParseOk(m) /\ CommitType(m) \notin IrrelevantTypes}

\* The commits that parse and whose type triggers a version bump.
RelevantMessages ==
    {m \in Messages : ParseOk(m) /\ (CommitBreaking(m) \/ CommitType(m) \notin IrrelevantTypes)}

from_commits_with_updater(updater, current, cs) ==
    IF cs = <<>> THEN None
    ELSE IF current.pre # 0 THEN "Prerelease"
    ELSE LET relevant_commits == FilterSeq(cs, RelevantMessages)
         IN  IF relevant_commits = <<>> THEN None
             ELSE from_conventional_commits(current, relevant_commits, updater)

bump(inc, v) ==
    CASE inc = "Major" -> increment_major(v)
      [] inc = "Minor" -> increment_minor(v)
      [] inc = "Patch" -> increment_patch(v)
      [] inc = "Prerelease" -> increment_prerelease(v)

\* VersionUpdater::increment
increment(updater, v, cs) ==
    LET inc == from_commits_with_updater(updater, v, cs)
    IN  IF inc = None THEN v ELSE bump(inc, v)

\* Commit lists of at most MaxCommits messages.
CommitLists == UNION {[1..n -> Messages] : n \in 0..MaxCommits}

VersionIdle ==
    /\ current_version = Version(0, 0, 0, 0)
    /\ commits = <<>>
    /\ version_updater = None
    /\ version_increment = None
    /\ next_version = None
    /\ vpc = "idle"

VersionInit ==
    /\ current_version \in Versions
    /\ commits \in CommitLists
    /\ version_updater \in Updaters
    /\ version_increment = None
    /\ next_version = None
    /\ vpc = "start"

ResolveVersion ==
    /\ vpc = "start"
    /\ version_increment' = from_commits_with_updater(version_updater, current_version, commits)
    /\ next_version' = increment(version_updater, current_version, commits)
    /\ vpc' = "done"
    /\ UNCHANGED <<current_version, commits, version_updater>>
    /\ VersionFrame

\* ------------------------------------------------------------------------
\* The `update` command: the git repository and the commit stream
\* ------------------------------------------------------------------------
NoCommit == 0

DEFAULT_LIMIT == 1000

Branches == {"main", "feature-branch"}

\* Messages of the commits users make: `feat: x`, `chore: x`, and a feat
\* with a body.  The first commit of the project is `add README` and a merge
\* commit says `Merge branch 'feature-branch'`.
RepoMessages ==
    { <<Subject("feat", FALSE)>>,
      <<Subject("chore", FALSE)>>,
      <<Subject("feat", FALSE), Blank, Text>> }

\* The version in Cargo.toml when `update` runs, tagged v0.1.0.
ManifestVersion == Version(0, 1, 0, 0)

\* Semver precedence: a pre-release precedes the release of the same triple.
VersionLess(a, b) ==
    \/ TripleLess(a, b)
    \/ /\ Triple(a) = Triple(b)
       /\ \/ a.pre # 0 /\ b.pre = 0
          \/ a.pre # 0 /\ b.pre # 0 /\ a.pre < b.pre

UpdateIdle ==
    /\ parents = <<>>
    /\ message = <<>>
    /\ branch_head = [b \in Branches |-> NoCommit]
    /\ current_branch = "main"
    /\ tag_commit = NoCommit
    /\ max_analyze_commits = 0
    /\ release_commits = NoRegex
    /\ collected = <<>>
    /\ all_commits = <<>>
    /\ workspace_version = None
    /\ manifest_version = ManifestVersion
    /\ upc = "idle"

\* The project as ComparisonTest::new leaves it: one commit on main.
UpdateInit ==
    /\ parents = << <<>> >>
    /\ message = << <<Text>> >>
    /\ branch_head = [b \in Branches |-> IF b = "main" THEN 1 ELSE NoCommit]
    /\ current_branch = "main"
    /\ tag_commit = NoCommit
    /\ max_analyze_commits = 0
    /\ release_commits = NoRegex
    /\ collected = <<>>
    /\ all_commits = <<>>
    /\ workspace_version = None
    /\ manifest_version = ManifestVersion
    /\ upc = "repo"

HeadCommit == branch_head[current_branch]

RECURSIVE AncestorsOrSelf(_)
AncestorsOrSelf(c) ==
    {c} \cup UNION {AncestorsOrSelf(parents[c][i]) : i \in 1..Len(parents[c])}

is_ancestor(a, b) == a \in AncestorsOrSelf(b)

RECURSIVE FirstParentChain(_)
FirstParentChain(c) ==
    IF parents[c] = <<>> THEN <<c>>
    ELSE <<c>> \o FirstParentChain(parents[c][1])

RECURSIVE SelectCommits(_, _)
SelectCommits(s, keep) ==
    IF s = <<>> THEN <<>>
    ELSE IF Head(s) \in keep THEN <<Head(s)>> \o SelectCommits(Tail(s), keep)
    ELSE SelectCommits(Tail(s), keep)

Prefix(s, n) == SubSeq(s, 1, IF n < Len(s) THEN n ELSE Len(s))

\* git_in_dir(project, ["commit", "-m", msg])
GitCommit(m) ==
    /\ upc = "repo"
    /\ Len(parents) < MaxRepoCommits
    /\ parents' = Append(parents, <<HeadCommit>>)
    /\ message' = Append(message, m)
    /\ branch_head' = [branch_head EXCEPT ![current_branch] = Len(parents) + 1]
    /\ UNCHANGED <<current_branch, tag_commit, max_analyze_commits, release_commits,
                   collected, all_commits, workspace_version, manifest_version, upc>>
    /\ UpdateFrame

\* git checkout -b feature-branch
GitCheckoutNewBranch ==
    /\ upc = "repo"
    /\ current_branch = "main"
    /\ branch_head["feature-branch"] = NoCommit
    /\ branch_head' = [branch_head EXCEPT !["feature-branch"] = HeadCommit]
    /\ current_branch' = "feature-branch"
    /\ UNCHANGED <<parents, message, tag_commit, max_analyze_commits, release_commits,
                   collected, all_commits, workspace_version, manifest_version, upc>>
    /\ UpdateFrame

\* git checkout <branch>
GitCheckout(b) ==
    /\ upc = "repo"
    /\ b # current_branch
    /\ branch_head[b] # NoCommit
    /\ current_branch' = b
    /\ UNCHANGED <<parents, message, branch_head, tag_commit, max_analyze_commits,
                   release_commits, collected, all_commits, workspace_version,
                   manifest_version, upc>>
    /\ UpdateFrame

\* git merge feature-branch -m "Merge branch 'feature-branch'", run on main:
\* a fast-forward when main has no commit of its own, a merge commit with
\* parents <<main, feature-branch>> otherwise.
GitMerge ==
    /\ upc = "repo"
    /\ current_branch = "main"
    /\ branch_head["feature-branch"] # NoCommit
    /\ ~is_ancestor(branch_head["feature-branch"], branch_head["main"])
    /\ IF is_ancestor(branch_head["main"], branch_head["feature-branch"])
       THEN /\ branch_head' = [branch_head EXCEPT !["main"] = branch_head["feature-branch"]]
            /\ UNCHANGED <<parents, message>>
       ELSE /\ Len(parents) < MaxRepoCommits
            /\ parents' = Append(parents, <<branch_head["main"], branch_head["feature-branch"]>>)
            /\ message' = Append(message, <<Text>>)
            /\ branch_head' = [branch_head EXCEPT !["main"] = Len(parents) + 1]
    /\ UNCHANGED <<current_branch, tag_commit, max_analyze_commits, release_commits,
                   collected, all_commits, workspace_version, manifest_version, upc>>
    /\ UpdateFrame

\* git tag -m v0.1.0 v0.1.0
GitTag ==
    /\ upc = "repo"
    /\ tag_commit = NoCommit
    /\ tag_commit' = HeadCommit
    /\ UNCHANGED <<parents, message, branch_head, current_branch, max_analyze_commits,
                   release_commits, collected, all_commits, workspace_version,
                   manifest_version, upc>>
    /\ UpdateFrame

RECURSIVE TrimEnd(_)
TrimEnd(ls) ==
    IF ls # <<>> /\ ls[Len(ls)].k = "blank" THEN TrimEnd(SubSeq(ls, 1, Len(ls) - 1))
    ELSE ls

\* One commit of `git log --format=%H%n%s%n%b%n--END-COMMIT--` after the
\* split, the trim and the removal of the hash line: the subject line
\* followed by the lines of the body.
LogMessage(msg) ==
    LET subject == <<msg[1]>>
        body == IF Len(msg) >= 3 THEN SubSeq(msg, 3, Len(msg)) ELSE <<>>
    IN  TrimEnd(subject \o body)

\* git log <range> --first-parent, newest first.
GitLogFirstParent(limit) ==
    IF tag_commit # NoCommit
    THEN SelectCommits(FirstParentChain(HeadCommit),
                       {c \in 1..Len(parents) : ~is_ancestor(c, tag_commit)})
    ELSE Prefix(FirstParentChain(HeadCommit), limit)

get_all_commits_since_tag(max) ==
    LET max_commits == IF max = 0 THEN DEFAULT_LIMIT ELSE max
        log == GitLogFirstParent(max_commits)
    IN  [i \in 1..Len(log) |-> [hash |-> log[i], message |-> LogMessage(message[log[i]])]]

\* release_commits_regex.is_match(&commit.message)
MatchesReleaseCommits(regex, msg) ==
    msg[1].k = "subject" /\ msg[1].type \in regex

RECURSIVE Retain(_, _)
Retain(cs, regex) ==
    IF cs = <<>> THEN <<>>
    ELSE IF MatchesReleaseCommits(regex, Head(cs).message)
         THEN <<Head(cs)>> \o Retain(Tail(cs), regex)
         ELSE Retain(Tail(cs), regex)

calculate_unified_workspace_version(cs, features_always_increment_minor) ==
    LET updater == [features_always_increment_minor |-> features_always_increment_minor,
                    breaking_always_increment_major |-> FALSE,
                    custom_major_increment_regex |-> NoRegex,
                    custom_minor_increment_regex |-> NoRegex]
    IN  IF cs = <<>> THEN ManifestVersion
        ELSE increment(updater, ManifestVersion, [i \in 1..Len(cs) |-> cs[i].message])

\* Updater::packages_to_update followed by the manifest update of `update`.
RunUpdate(max, regex, faim) ==
    /\ upc = "repo"
    /\ max_analyze_commits' = max
    /\ release_commits' = regex
    /\ LET since_tag == get_all_commits_since_tag(max)
           filtered == IF regex # NoRegex THEN Retain(since_tag, regex) ELSE since_tag
           version == calculate_unified_workspace_version(filtered, faim)
           should_update ==
               IF regex # NoRegex
               THEN filtered # <<>> /\ VersionLess(ManifestVersion, version)
               ELSE VersionLess(ManifestVersion, version)
       IN  /\ collected' = since_tag
           /\ all_commits' = filtered
           /\ workspace_version' = IF should_update THEN version ELSE None
           /\ manifest_version' = IF should_update THEN version ELSE manifest_version
    /\ upc' = "done"
    /\ UNCHANGED <<parents, message, branch_head, current_branch, tag_commit>>
    /\ UpdateFrame

\* The update requests of the model: the default one, and one for each option
\* set on its own.
UpdateRequest(max, regex, faim) ==
    [max_analyze_commits |-> max, release_commits |-> regex,
     features_always_increment_minor |-> faim]

UpdateRequests ==
    { UpdateRequest(0, NoRegex, FALSE),
      UpdateRequest(2, NoRegex, FALSE),
      UpdateRequest(0, {"feat"}, FALSE),
      UpdateRequest(0, NoRegex, TRUE) }

UpdateNext ==
    \/ \E m \in RepoMessages : GitCommit(m)
    \/ GitCheckoutNewBranch
    \/ \E b \in Branches : GitCheckout(b)
    \/ GitMerge
    \/ GitTag
    \/ \E cfg \in UpdateRequests :
          RunUpdate(cfg.max_analyze_commits, cfg.release_commits,
                    cfg.features_always_increment_minor)

\* ------------------------------------------------------------------------
\* Changelog synthesis (get_workspace_changelog)
\* ------------------------------------------------------------------------
\* A changelog file is its header followed by one section per version, most
\* recent first; a section records its version and the commits it renders.
Section(v, cs) == [version |-> v, entries |-> cs]

EmptyDelta == <<>>

\* Versions the changelog model ranges over (no pre-release tag).
ChangelogVersions == {Version(0, 1, pa, 0) : pa \in 0..MaxVer}

ChangelogMessages == {<<Subject("feat", FALSE)>>, <<Subject("chore", FALSE)>>}

ChangelogCommitLists == UNION {[1..n -> ChangelogMessages] : n \in 0..MaxCommits}

\* Existing changelogs: sections written by earlier runs.
OldSections == {Section(v, <<(<<Subject("fix", FALSE)>>)>>) : v \in ChangelogVersions}

OldChangelogs == UNION {[1..n -> OldSections] : n \in 0..MaxSections}

\* An Option is the empty sequence (None) or a sequence of one value (Some).
NoneOpt == <<>>

Some(x) == <<x>>

Unwrap(opt) == opt[1]

\* ChangelogRequest: None, or a request with or without a changelog_config.
ChangelogRequests ==
    {NoneOpt, Some([changelog_config |-> FALSE]), Some([changelog_config |-> TRUE])}

HasChangelogConfig(changelog_request) ==
    changelog_request # NoneOpt /\ Unwrap(changelog_request).changelog_config

\* changelog_parser::last_version_from_str
last_version_from_str(changelog) ==
    IF changelog = <<>> THEN NoneOpt ELSE Some(changelog[1].version)

\* Changelog::prepend: the new section goes after the header and before the
\* most recent prior section; a changelog that already records the version
\* is returned as it is.
prepend(section, old) ==
    IF last_version_from_str(old) = Some(section.version) THEN old
    ELSE <<section>> \o old

\* Changelog::generate: header and the new section.
generate(section) == <<section>>

\* new_changelog_entry: the body of the new section, rendered with an empty
\* header and footer, when a changelog_config is present.
new_changelog_entry(section, has_config) ==
    IF has_config THEN <<section>> ELSE None

\* get_workspace_changelog without the early return for an unchanged version.
get_workspace_changelog_always_builds(cs, next, changelog_request, old, current) ==
    LET section == Section(next, cs)
        has_config == HasChangelogConfig(changelog_request)
        changelog ==
            IF old # NoneOpt THEN prepend(section, Unwrap(old)) ELSE generate(section)
        body_only == new_changelog_entry(section, has_config)
    IN  [changelog |-> changelog,
         delta |-> IF body_only = None THEN EmptyDelta ELSE body_only]

get_workspace_changelog(cs, next, changelog_request, old, current) ==
    LET section == Section(next, cs)
        has_config == HasChangelogConfig(changelog_request)
        is_new_version == next # current
        last_version ==
            IF old # NoneOpt THEN last_version_from_str(Unwrap(old)) ELSE NoneOpt
        returns_old ==
            /\ changelog_request # NoneOpt
            /\ ~is_new_version
            /\ last_version # NoneOpt
            /\ old # NoneOpt
            /\ Unwrap(last_version) = next
        changelog ==
            IF old # NoneOpt THEN prepend(section, Unwrap(old)) ELSE generate(section)
        body_only == new_changelog_entry(section, has_config)
    IN  IF returns_old THEN [changelog |-> Unwrap(old), delta |-> EmptyDelta]
        ELSE [changelog |-> changelog,
              delta |-> IF body_only = None THEN EmptyDelta ELSE body_only]

ChangelogIdle ==
    /\ cl_commits = <<>>
    /\ cl_next_version = ManifestVersion
    /\ cl_current_version = ManifestVersion
    /\ changelog_req = NoneOpt
    /\ old_changelog = NoneOpt
    /\ cl_result = None
    /\ cpc = "idle"

ChangelogInit ==
    /\ cl_commits \in ChangelogCommitLists
    /\ cl_next_version \in ChangelogVersions
    /\ cl_current_version \in ChangelogVersions
    /\ changelog_req \in ChangelogRequests
    /\ old_changelog \in {NoneOpt} \cup {Some(c) : c \in OldChangelogs}
    /\ cl_result = None
    /\ cpc = "start"

SynthesizeChangelog ==
    /\ cpc = "start"
    /\ cl_result' = get_workspace_changelog(cl_commits, cl_next_version, changelog_req,
                                            old_changelog, cl_current_version)
    /\ cpc' = "done"
    /\ UNCHANGED <<cl_commits, cl_next_version, cl_current_version, changelog_req,
                   old_changelog>>
    /\ ChangelogFrame

\* ------------------------------------------------------------------------
\* The `publish` command
\* ------------------------------------------------------------------------
\* The workspace: package `a` depends on package `b`.
Packages == {"a", "b"}

\* metadata.packages, in the order cargo metadata lists them.
MetadataPackages == <<"a", "b">>

Dependencies == [p \in Packages |-> IF p = "a" THEN {"b"} ELSE {}]

\* Release order of the workspace: dependencies before dependents.
ReleaseOrder == <<"b", "a">>

\* Registry name None is crates.io.
CratesIo == NoneOpt

\* `publish` field of a manifest: absent, empty (or false), or a registry list.
PublishFields == {NoneOpt, Some(<<>>), Some(<<"r1", "r2">>)}

RequestRegistries == {NoneOpt, Some("r1")}

is_publishable(publish) == publish # Some(<<>>)

\* The tokens cargo publish can be given: none, the --token of the request,
\* the credential Cargo holds for a registry, a trusted publishing token.
NoToken == [kind |-> "no_token", registry |-> NoneOpt]

RequestToken == [kind |-> "token", registry |-> NoneOpt]

TrustedToken == [kind |-> "trusted", registry |-> NoneOpt]

Credential(registry) == [kind |-> "credential", registry |-> registry]

Registries == {CratesIo, Some("r1"), Some("r2")}

\* Where a token can come from: --token, the registries Cargo has a
\* credential for (credentials file or environment), and whether the run is
\* inside GitHub Actions (trusted publishing).
TokenSetups ==
    {[token |-> TRUE, credentials |-> {}, github_actions |-> FALSE],
     [token |-> FALSE, credentials |-> Registries, github_actions |-> FALSE],
     [token |-> TRUE, credentials |-> Registries, github_actions |-> FALSE],
     [token |-> FALSE, credentials |-> {}, github_actions |-> TRUE],
     [token |-> FALSE, credentials |-> {}, github_actions |-> FALSE]}

\* Result of one index lookup.
IndexResults == {"present", "absent", "error"}

\* What `cargo publish` reports: exit status and the three stderr substrings.
CmdOutputs ==
    [success : BOOLEAN, uploading : BOOLEAN, error : BOOLEAN, already_uploaded : BOOLEAN]

PublishRunInit ==
    /\ packages = <<>>
    /\ pkg_idx = 1
    /\ reg_idx = 1
    /\ package_was_published = FALSE
    /\ index_used = "primary"
    /\ package_publishes = <<>>
    /\ output = NoneOpt
    /\ pub_error = NoneOpt
    /\ queried = {}
    /\ found_published = {}
    /\ invoked = {}
    /\ uploaded = {}
    /\ settled = {}
    /\ polled = {}
    /\ cmd_output = NoneOpt
    /\ tp_client = "none"
    /\ tp_acquired = 0
    /\ tp_revocations = 0

PublishIdle ==
    /\ manifest_publish = [p \in Packages |-> NoneOpt]
    /\ request_registry = NoneOpt
    /\ dry_run = FALSE
    /\ default_publish = TRUE
    /\ overrides = [p \in Packages |-> NoneOpt]
    /\ token_setup = [token |-> FALSE, credentials |-> {}, github_actions |-> FALSE]
    /\ ppc = "idle"
    /\ PublishRunInit

PublishInit ==
    /\ manifest_publish \in [Packages -> PublishFields]
    /\ request_registry \in RequestRegistries
    /\ dry_run \in BOOLEAN
    /\ default_publish \in BOOLEAN
    /\ overrides \in [Packages -> {NoneOpt, Some(TRUE), Some(FALSE)}]
    /\ token_setup \in TokenSetups
    /\ ppc = "start"
    /\ PublishRunInit

\* PackagesConfig::get and PublishRequest::is_publish_enabled
is_publish_enabled(p) ==
    IF overrides[p] # NoneOpt THEN Unwrap(overrides[p]) ELSE default_publish

\* PackagesConfig::publish_overrides_fields: packages with a `[[package]]`
\* override, and the publish value of the override.
publish_overrides_fields == {p \in Packages : overrides[p] # NoneOpt}

Inconsistent(p) ==
    /\ ~is_publishable(manifest_publish[p])
    /\ p \in publish_overrides_fields
    /\ Unwrap(overrides[p])

\* A pre-flight check that accepts every configuration.
check_publish_fields_ignores_config ==
    NoneOpt

\* check_publish_fields: None when consistent, else the package the error names.
check_publish_fields ==
    LET bad == {i \in 1..Len(MetadataPackages) : Inconsistent(MetadataPackages[i])}
    IN  IF bad = {} THEN NoneOpt
        ELSE Some(MetadataPackages[CHOOSE i \in bad : \A j \in bad : i <= j])

\* Project::publishable_packages: publishable packages in release order.
publishable_packages ==
    SelectSeq(ReleaseOrder, LAMBDA p : is_publishable(manifest_publish[p]))

\* registry_indexes: the registry of the request, else the registries of the
\* manifest, else crates.io.
registry_indexes(p) ==
    LET registries ==
            IF request_registry # NoneOpt THEN <<Unwrap(request_registry)>>
            ELSE IF manifest_publish[p] = NoneOpt THEN <<>>
            ELSE Unwrap(manifest_publish[p])
    IN  IF registries = <<>> THEN <<CratesIo>>
        ELSE [i \in 1..Len(registries) |-> Some(registries[i])]

\* cargo_utils::registry_token: the credential Cargo holds for a registry.
registry_token(registry) ==
    IF registry \in token_setup.credentials THEN Credential(registry) ELSE NoToken

\* find_registry_token
find_registry_token(registry) ==
    LET is_registry_same_as_request == request_registry = registry
    IN  IF is_registry_same_as_request /\ token_setup.token THEN RequestToken
        ELSE registry_token(request_registry)

CurrentPackage == packages[pkg_idx]

CurrentRegistry == registry_indexes(CurrentPackage)[reg_idx]

\* A failure that is recorded while publish goes on to its end.
PublishFailed_swallowed(kind) ==
    /\ ppc' = "finish"
    /\ pub_error' = Some([kind |-> kind, package |-> CurrentPackage])
    /\ UNCHANGED <<publishLoopVars, output>>

\* The `?` of publish: the error is returned at once.
PublishFailed(kind) ==
    /\ ppc' = "failed"
    /\ pub_error' = Some([kind |-> kind, package |-> CurrentPackage])
    /\ UNCHANGED <<publishLoopVars, output>>

\* publish_request: builds the request and runs the pre-flight check.
PublishRequestStep ==
    /\ ppc = "start"
    /\ IF check_publish_fields # NoneOpt
       THEN /\ ppc' = "failed"
            /\ pub_error' = Some([kind |-> "inconsistent_publish",
                                  package |-> Unwrap(check_publish_fields)])
       ELSE /\ ppc' = "publish"
            /\ UNCHANGED pub_error
    /\ UNCHANGED <<publishConfigVars, publishLoopVars, publishHistoryVars, output,
                   tp_client, tp_acquired, tp_revocations>>
    /\ PublishFrame

\* publish, up to the loop over the packages.
BeginPublish ==
    /\ ppc = "publish"
    /\ packages' = publishable_packages
    /\ IF publishable_packages = <<>>
       THEN ppc' = "done"
       ELSE ppc' = "check_registry"
    /\ UNCHANGED <<publishConfigVars, publishHistoryVars, pkg_idx, reg_idx,
                   package_was_published, index_used, package_publishes, output,
                   pub_error, tp_client, tp_acquired, tp_revocations>>
    /\ PublishFrame

\* The registry loop with a package reported whether or not it was uploaded.
NextRegistry_reports_every_package(published_at_index) ==
    IF reg_idx < Len(registry_indexes(CurrentPackage))
    THEN /\ reg_idx' = reg_idx + 1
         /\ package_was_published' = TRUE
         /\ ppc' = "check_registry"
         /\ UNCHANGED <<packages, pkg_idx, package_publishes>>
    ELSE /\ package_publishes' = Append(package_publishes, CurrentPackage)
         /\ pkg_idx' = pkg_idx + 1
         /\ reg_idx' = 1
         /\ package_was_published' = FALSE
         /\ ppc' = IF pkg_idx < Len(packages) THEN "check_registry" ELSE "finish"
         /\ UNCHANGED packages

\* The end of one iteration of the registry loop: the next registry, or the
\* end of publish_package_if_needed and the next package.
NextRegistry(published_at_index) ==
    LET was_published == package_was_published \/ published_at_index
    IN  IF reg_idx < Len(registry_indexes(CurrentPackage))
        THEN /\ reg_idx' = reg_idx + 1
             /\ package_was_published' = was_published
             /\ ppc' = "check_registry"
             /\ UNCHANGED <<packages, pkg_idx, package_publishes>>
        ELSE /\ package_publishes' =
                    IF was_published THEN Append(package_publishes, CurrentPackage)
                    ELSE package_publishes
             /\ pkg_idx' = pkg_idx + 1
             /\ reg_idx' = 1
             /\ package_was_published' = FALSE
             /\ ppc' = IF pkg_idx < Len(packages) THEN "check_registry" ELSE "finish"
             /\ UNCHANGED packages

\* is_package_published with the answer of the fallback index left unused.
is_package_published_primary_only(primary, fallback) ==
    [result |-> primary, index |-> "primary"]

\* is_package_published: the result of the primary index, or of the fallback
\* index when the primary fails and a fallback exists and answers.
is_package_published(primary, fallback) ==
    IF fallback # NoneOpt /\ primary = "error" /\ Unwrap(fallback) # "error"
    THEN [result |-> Unwrap(fallback), index |-> "fallback"]
    ELSE [result |-> primary, index |-> "primary"]

\* The lookups is_package_published makes.
IndexLookups(primary, fallback) ==
    {[package |-> CurrentPackage, registry |-> CurrentRegistry, index |-> "primary",
      result |-> primary]}
        \cup (IF fallback # NoneOpt /\ primary = "error"
              THEN {[package |-> CurrentPackage, registry |-> CurrentRegistry,
                     index |-> "fallback", result |-> Unwrap(fallback)]}
              ELSE {})

\* publish_package_if_needed, one registry: the published check.
CheckRegistry ==
    /\ ppc = "check_registry"
    /\ \E primary \in IndexResults :
       \E fallback \in {NoneOpt} \cup
                (IF CurrentRegistry = CratesIo THEN {}
                 ELSE {Some(r) : r \in IndexResults}) :
          LET check == is_package_published(primary, fallback)
          IN  /\ queried' = queried \cup IndexLookups(primary, fallback)
              /\ CASE check.result = "error" ->
                        /\ PublishFailed("published_check")
                        /\ UNCHANGED found_published
                   [] check.result = "present" ->
                        /\ found_published' =
                               found_published \cup {<<CurrentPackage, CurrentRegistry>>}
                        /\ NextRegistry(FALSE)
                        /\ UNCHANGED <<index_used, output, pub_error>>
                   [] OTHER ->
                        /\ index_used' = check.index
                        /\ ppc' = "publish_registry"
                        /\ UNCHANGED <<packages, pkg_idx, reg_idx, package_was_published,
                                       package_publishes, found_published, output,
                                       pub_error>>
    /\ cmd_output' = NoneOpt
    /\ UNCHANGED <<publishConfigVars, invoked, uploaded, settled, polled, tp_client,
                   tp_acquired, tp_revocations>>
    /\ PublishFrame

\* The output when cargo publish could not be run.
NoOutput == [success |-> FALSE, uploading |-> FALSE, error |-> TRUE, already_uploaded |-> FALSE]

\* Failure detection that looks at the exit status alone.
IsFailure_status_only(out) == ~out.success

\* Failure detection on the output of cargo publish.
IsFailure(out) == ~out.success \/ ~out.uploading \/ out.error

\* publish_package_to_registry: trusted publishing, cargo publish, the
\* post-publish wait.
PublishToRegistry ==
    /\ ppc = "publish_registry"
    /\ IF ~is_publish_enabled(CurrentPackage)
       THEN /\ NextRegistry(FALSE)
            /\ UNCHANGED <<index_used, output, pub_error, invoked, uploaded, settled,
                           polled, cmd_output, tp_client, tp_acquired>>
       ELSE LET token == find_registry_token(CurrentRegistry)
                should_use_trusted_publishing ==
                    /\ token = NoToken
                    /\ ~token_setup.token
                    /\ CurrentRegistry = CratesIo
                    /\ ~dry_run
                    /\ token_setup.github_actions
                acquires == should_use_trusted_publishing /\ tp_client = "none"
            IN
            \E tp_ok \in (IF acquires THEN BOOLEAN ELSE {FALSE}) :
            LET client == IF acquires /\ tp_ok THEN "held" ELSE tp_client
                publish_token ==
                    IF should_use_trusted_publishing /\ client = "held" THEN TrustedToken
                    ELSE token
                cli_token ==
                    IF publish_token # NoToken THEN publish_token
                    ELSE IF token_setup.token THEN RequestToken
                    ELSE NoToken
                checks_ci_token == cli_token = NoToken /\ token_setup.github_actions
                invocation ==
                    [package |-> CurrentPackage, registry |-> CurrentRegistry,
                     token |-> cli_token]
                poll ==
                    [package |-> CurrentPackage, registry |-> CurrentRegistry,
                     index |-> index_used]
            IN
            \E ci_token_empty \in (IF checks_ci_token THEN BOOLEAN ELSE {FALSE}) :
            \E run_ok \in (IF ci_token_empty THEN {FALSE} ELSE BOOLEAN) :
            \E out \in (IF run_ok THEN CmdOutputs ELSE {NoOutput}) :
            \E wait_ok \in (IF run_ok /\ ~IsFailure(out) /\ ~dry_run THEN BOOLEAN
                            ELSE {FALSE}) :
            LET verify_fails == checks_ci_token /\ ci_token_empty
                polls == run_ok /\ ~IsFailure(out) /\ ~dry_run
            IN  /\ tp_client' = client
                /\ tp_acquired' = IF acquires THEN tp_acquired + 1 ELSE tp_acquired
                /\ cmd_output' = IF run_ok THEN Some(out) ELSE NoneOpt
                /\ polled' = IF polls THEN polled \cup {poll} ELSE polled
                /\ CASE verify_fails ->
                          /\ PublishFailed("cargo_publish")
                          /\ UNCHANGED <<invoked, uploaded, settled>>
                     [] ~verify_fails /\ ~run_ok ->
                          /\ invoked' = invoked \cup {invocation}
                          /\ PublishFailed("cargo_publish")
                          /\ UNCHANGED <<uploaded, settled>>
                     [] ~verify_fails /\ run_ok /\ IsFailure(out) /\ out.already_uploaded ->
                          /\ invoked' = invoked \cup {invocation}
                          /\ NextRegistry(FALSE)
                          /\ UNCHANGED <<index_used, output, pub_error, uploaded, settled>>
                     [] ~verify_fails /\ run_ok /\ IsFailure(out) /\ ~out.already_uploaded ->
                          /\ invoked' = invoked \cup {invocation}
                          /\ PublishFailed("cargo_publish")
                          /\ UNCHANGED <<uploaded, settled>>
                     [] ~verify_fails /\ run_ok /\ ~IsFailure(out) /\ dry_run ->
                          /\ invoked' = invoked \cup {invocation}
                          /\ NextRegistry(FALSE)
                          /\ UNCHANGED <<index_used, output, pub_error, uploaded, settled>>
                     [] ~verify_fails /\ run_ok /\ ~IsFailure(out) /\ ~dry_run /\ ~wait_ok ->
                          /\ invoked' = invoked \cup {invocation}
                          /\ uploaded' = uploaded \cup {<<CurrentPackage, CurrentRegistry>>}
                          /\ PublishFailed("publish_timeout")
                          /\ UNCHANGED settled
                     [] OTHER ->
                          /\ invoked' = invoked \cup {invocation}
                          /\ uploaded' = uploaded \cup {<<CurrentPackage, CurrentRegistry>>}
                          /\ settled' = settled \cup {<<CurrentPackage, CurrentRegistry>>}
                          /\ NextRegistry(TRUE)
                          /\ UNCHANGED <<index_used, output, pub_error>>
    /\ UNCHANGED <<publishConfigVars, queried, found_published, tp_revocations>>
    /\ PublishFrame

\* publish, after the loop: the trusted publishing token is revoked and the
\* output is built.
FinishPublish ==
    /\ ppc = "finish"
    /\ \E revoke_ok \in BOOLEAN :
          IF tp_client = "held"
          THEN /\ tp_revocations' = tp_revocations + 1
               /\ tp_client' = IF revoke_ok THEN "revoked" ELSE "held"
          ELSE UNCHANGED <<tp_client, tp_revocations>>
    /\ output' = IF package_publishes # <<>>
                 THEN Some([published |-> package_publishes])
                 ELSE NoneOpt
    /\ ppc' = "done"
    /\ cmd_output' = NoneOpt
    /\ UNCHANGED <<publishConfigVars, publishLoopVars, queried, found_published, invoked,
                   uploaded, settled, polled, pub_error, tp_acquired>>
    /\ PublishFrame

\* main: `publish(&request).await?.unwrap_or_default()`
PrintedOutput ==
    IF output = NoneOpt THEN [published |-> <<>>] ELSE Unwrap(output)

PublishNext ==
    \/ PublishRequestStep
    \/ BeginPublish
    \/ CheckRegistry
    \/ PublishToRegistry
    \/ FinishPublish

\* ------------------------------------------------------------------------
\* The `release` command
\* ------------------------------------------------------------------------
\* Commits of the repository; the command is started on HeadSha.
Shas == {"c1", "c2"}

HeadSha == "c1"

\* Answer of a forge call: an error, or a value.
Err == [ok |-> FALSE, value |-> <<>>]

Ok(v) == [ok |-> TRUE, value |-> v]

\* A PR associated with the current commit; release_branch tells whether its
\* head branch starts with branch_prefix.
Prs == [release_branch : BOOLEAN]

PrLists == UNION {[1..n -> Prs] : n \in 0..MaxPrs}

PrCommitLists == UNION {[1..n -> Shas] : n \in 0..MaxPrCommits}

\* Publishable packages in release order, and whether they share a version.
ReleaseWorkspaces ==
    {[packages |-> <<>>, same_version |-> TRUE],
     [packages |-> <<"b">>, same_version |-> TRUE],
     [packages |-> <<"b", "a">>, same_version |-> TRUE],
     [packages |-> <<"b", "a">>, same_version |-> FALSE],
     [packages |-> <<"c", "b", "a">>, same_version |-> FALSE]}

\* git_tag / git_release enabled, tag.gpgSign, and whether
\* git_release.name_template is set.
ReleaseConfigs ==
    {[git_tag |-> TRUE, git_release |-> TRUE, sign_tags |-> FALSE, name_template |-> FALSE],
     [git_tag |-> TRUE, git_release |-> TRUE, sign_tags |-> TRUE, name_template |-> FALSE],
     [git_tag |-> FALSE, git_release |-> TRUE, sign_tags |-> FALSE, name_template |-> TRUE],
     [git_tag |-> TRUE, git_release |-> FALSE, sign_tags |-> FALSE, name_template |-> FALSE]}

\* project.git_tag(version): the tag of a package is the tag of its version.
PackageVersion(workspace, p) ==
    IF workspace.same_version \/ p \in {"b", "c"} THEN "1.0.0" ELSE "2.0.0"

git_tag(version) == version

\* project.release_name(package, version): the rendered release name.
release_name(package, version) == <<package, version>>

\* format!("Version {}", version)
VersionName(version) == <<"Version ", version>>

TagNames == {git_tag("1.0.0"), git_tag("2.0.0")}

\* No decision yet.
Undecided == [kind |-> "Undecided", commit |-> ""]

No == [kind |-> "No", commit |-> ""]

Yes == [kind |-> "Yes", commit |-> ""]

YesWithCommit(sha) == [kind |-> "YesWithCommit", commit |-> sha]

ReleaseRunInit ==
    /\ decision = Undecided
    /\ repo_head = HeadSha
    /\ checkout_done = FALSE
    /\ checkouts = <<>>
    /\ restore_ok = FALSE
    /\ rel_idx = 1
    /\ package_releases = <<>>
    /\ release_result = None
    /\ rel_return = None

ReleaseHistoryInit ==
    /\ forge_releases = {}
    /\ rel_runs = 1
    /\ forge_calls = <<>>
    /\ release_names = <<>>
    /\ dry_run_log = <<>>

ReleaseIdle ==
    /\ associated_prs = Err
    /\ pr_commits = Err
    /\ original_branch_commits = {HeadSha}
    /\ release_always = FALSE
    /\ rel_dry_run = FALSE
    /\ rel_workspace = [packages |-> <<>>, same_version |-> TRUE]
    /\ rel_config = [git_tag |-> TRUE, git_release |-> TRUE, sign_tags |-> FALSE,
                      name_template |-> FALSE]
    /\ local_tags = {}
    /\ remote_tags = {}
    /\ rpc = "idle"
    /\ ReleaseRunInit
    /\ ReleaseHistoryInit

\* The local repository knows some of the tags of the remote.
ReleaseInit ==
    /\ associated_prs \in {Err} \cup {Ok(prs) : prs \in PrLists}
    /\ pr_commits \in {Err} \cup {Ok(cs) : cs \in PrCommitLists}
    /\ original_branch_commits \in {cs \in SUBSET Shas : HeadSha \in cs}
    /\ release_always \in BOOLEAN
    /\ rel_dry_run \in BOOLEAN
    /\ rel_workspace \in ReleaseWorkspaces
    /\ rel_config \in ReleaseConfigs
    /\ remote_tags \in SUBSET TagNames
    /\ local_tags \in SUBSET remote_tags
    /\ rpc = "fetch"
    /\ ReleaseRunInit
    /\ ReleaseHistoryInit

\* release: `git fetch --tags`; a failure is logged and ignored.
FetchTags ==
    /\ rpc = "fetch"
    /\ \E ok \in BOOLEAN :
           local_tags' = IF ok THEN local_tags \cup remote_tags ELSE local_tags
    /\ rpc' = "start"
    /\ UNCHANGED <<releaseConfigVars, releaseRepoVars, remote_tags, forge_releases,
                   releaseHistoryVars, decision, rel_idx, package_releases,
                   release_result, rel_return>>
    /\ ReleaseFrame

Last(seq) == seq[Len(seq)]

\* prs.iter().find(|pr| pr.branch().starts_with(&input.branch_prefix))
associated_release_pr(prs) ==
    LET found == {i \in 1..Len(prs) : prs[i].release_branch}
    IN  IF found = {} THEN NoneOpt
        ELSE Some(prs[CHOOSE i \in found : \A j \in found : i <= j])

is_pr_commit_in_original_branch(sha) == sha \in original_branch_commits

\* should_release with the PR's last commit never compared with the current one.
should_release_without_current_commit(last_commit, release_pr, pr_shas, always) ==
    IF release_pr # NoneOpt
    THEN IF pr_shas # <<>>
         THEN IF is_pr_commit_in_original_branch(Last(pr_shas))
              THEN YesWithCommit(Last(pr_shas))
              ELSE Yes
         ELSE Yes
    ELSE IF always THEN Yes ELSE No

\* should_release, once the forge has answered.
should_release(last_commit, release_pr, pr_shas, always) ==
    IF release_pr # NoneOpt
    THEN IF pr_shas # <<>> /\ Last(pr_shas) # last_commit
         THEN IF is_pr_commit_in_original_branch(Last(pr_shas))
              THEN YesWithCommit(Last(pr_shas))
              ELSE Yes
         ELSE Yes
    ELSE IF always THEN Yes ELSE No

NeedsPrCommits ==
    associated_prs.ok /\ associated_release_pr(associated_prs.value) # NoneOpt

\* release, up to the decision: an error of the forge is returned, No ends
\* the command with no release.
ShouldReleaseStep ==
    /\ rpc = "start"
    /\ IF ~associated_prs.ok \/ (NeedsPrCommits /\ ~pr_commits.ok)
       THEN /\ rpc' = "failed"
            /\ rel_return' = Err
            /\ UNCHANGED decision
       ELSE LET d == should_release(repo_head,
                                    associated_release_pr(associated_prs.value),
                                    IF NeedsPrCommits THEN pr_commits.value ELSE <<>>,
                                    release_always)
            IN  /\ decision' = d
                /\ IF d = No
                   THEN rpc' = "returned" /\ rel_return' = Ok(NoneOpt)
                   ELSE rpc' = "checkout" /\ UNCHANGED rel_return
    /\ UNCHANGED <<releaseConfigVars, releaseRepoVars, releaseForgeVars,
                   releaseHistoryVars, rel_idx, package_releases, release_result>>
    /\ ReleaseFrame

\* release: the checkout of the PR's last commit; a failure is ignored.
Checkout ==
    /\ rpc = "checkout"
    /\ IF decision.kind = "YesWithCommit"
       THEN \E ok \in BOOLEAN :
               /\ checkouts' = Append(checkouts, decision.commit)
               /\ checkout_done' = ok
               /\ repo_head' = IF ok THEN decision.commit ELSE repo_head
       ELSE UNCHANGED <<checkouts, checkout_done, repo_head>>
    /\ rpc' = "release_packages"
    /\ UNCHANGED <<releaseConfigVars, releaseForgeVars, releaseHistoryVars, restore_ok,
                   decision, rel_idx, package_releases, release_result, rel_return>>
    /\ ReleaseFrame

is_unified_workspace ==
    rel_workspace.same_version /\ Len(rel_workspace.packages) > 1

\* release_packages, up to the choice between one release for the workspace
\* and one release per package.
BeginReleasePackages ==
    /\ rpc = "release_packages"
    /\ IF rel_workspace.packages = <<>>
       THEN /\ release_result' = Ok(NoneOpt)
            /\ rpc' = "restore"
       ELSE /\ rpc' = IF is_unified_workspace THEN "unified" ELSE "package"
            /\ UNCHANGED release_result
    /\ UNCHANGED <<releaseConfigVars, releaseRepoVars, releaseForgeVars,
                   releaseHistoryVars, decision, rel_idx, package_releases, rel_return>>
    /\ ReleaseFrame

\* Outcomes of the tag creation and of the forge release creation.
TagOutcomes == {"ok", "tag_error", "push_error"}

\* A tag or release creation issued by the command, and whether it succeeded.
Call(op, tag, ok) == [run |-> rel_runs, op |-> op, tag |-> tag, ok |-> ok]

\* repo.tag_exists with the check left out.
tag_exists_never(tag) == FALSE

\* repo.tag_exists: the tag is looked up in the local repository.
tag_exists(tag) == tag \in local_tags

\* A request whose dry_run is not looked at.
dry_run_ignored == FALSE

\* input.dry_run
input_dry_run == rel_dry_run

\* log_dry_run_info: the operations skipped because of the dry run.
log_dry_run_info(tag) ==
    [tag |-> tag,
     items_to_skip |-> (IF rel_config.git_tag THEN {"tag"} ELSE {})
                       \cup (IF rel_config.git_release THEN {"release"} ELSE {})]

\* The calls release_package issues to create the tag: the tag is created
\* locally and pushed when tags are signed, through the forge API otherwise.
tag_calls(tag, tag_outcome) ==
    IF ~rel_config.git_tag THEN <<>>
    ELSE IF rel_config.sign_tags
    THEN IF tag_outcome = "tag_error" THEN <<Call("tag", tag, FALSE)>>
         ELSE <<Call("tag", tag, TRUE), Call("push", tag, tag_outcome = "ok")>>
    ELSE <<Call("create_tag", tag, tag_outcome = "ok")>>

\* release_package: the tag, then the forge release. Gives the tags, the
\* releases and whether the package was released (Err when a step failed).
release_package(tag, tag_outcome, release_ok) ==
    IF input_dry_run
    THEN [local |-> local_tags, remote |-> remote_tags, releases |-> forge_releases,
          calls |-> <<>>, log |-> <<log_dry_run_info(tag)>>, result |-> Ok(FALSE)]
    ELSE LET tag_failed == rel_config.git_tag /\ tag_outcome # "ok"
             local ==
                 IF rel_config.git_tag /\ rel_config.sign_tags /\ tag_outcome # "tag_error"
                 THEN local_tags \cup {tag}
                 ELSE local_tags
             remote ==
                 IF rel_config.git_tag /\ tag_outcome = "ok"
                 THEN remote_tags \cup {tag}
                 ELSE remote_tags
             creates_release == ~tag_failed /\ rel_config.git_release
             release_failed == creates_release /\ ~release_ok
             releases ==
                 IF creates_release /\ release_ok
                 THEN forge_releases \cup {tag}
                 ELSE forge_releases
             calls ==
                 tag_calls(tag, tag_outcome)
                 \o (IF creates_release
                     THEN <<Call("create_release", tag, release_ok)>> ELSE <<>>)
         IN  [local |-> local, remote |-> remote, releases |-> releases,
              calls |-> calls, log |-> <<>>,
              result |-> IF tag_failed \/ release_failed THEN Err ELSE Ok(TRUE)]

\* GitReleaseInfo.release_name of the create_release calls among the calls.
named(calls, name) ==
    [i \in 1..Len(SelectSeq(calls, LAMBDA c : c.op = "create_release")) |-> name]

PackageRelease(name, version) ==
    [package_name |-> name, tag |-> git_tag(version), version |-> version]

\* Result of release_packages for the releases collected.
ReleaseOf(releases) ==
    IF releases = <<>> THEN Ok(NoneOpt) ELSE Ok(Some([releases |-> releases]))

\* release_unified_workspace
ReleaseUnifiedWorkspace ==
    /\ rpc = "unified"
    /\ LET version == PackageVersion(rel_workspace, rel_workspace.packages[1])
           tag == git_tag(version)
       IN  IF tag_exists(tag)
           THEN /\ release_result' = Ok(NoneOpt)
                /\ UNCHANGED <<releaseForgeVars, package_releases, forge_calls,
                               release_names, dry_run_log>>
           ELSE \E changelog_ok \in BOOLEAN :
                \E tag_outcome \in (IF changelog_ok THEN TagOutcomes ELSE {"ok"}) :
                \E release_ok \in (IF changelog_ok THEN BOOLEAN ELSE {TRUE}) :
                   IF ~changelog_ok
                   THEN /\ release_result' = Err
                        /\ UNCHANGED <<releaseForgeVars, package_releases, forge_calls,
                                       release_names, dry_run_log>>
                   ELSE LET r == release_package(tag, tag_outcome, release_ok)
                            name == IF rel_config.name_template
                                    THEN release_name("workspace", version)
                                    ELSE VersionName(version)
                        IN  /\ local_tags' = r.local
                            /\ remote_tags' = r.remote
                            /\ forge_releases' = r.releases
                            /\ forge_calls' = forge_calls \o r.calls
                            /\ release_names' = release_names \o named(r.calls, name)
                            /\ dry_run_log' = dry_run_log \o r.log
                            /\ package_releases' =
                                   IF r.result.ok /\ r.result.value
                                   THEN <<PackageRelease("workspace", version)>>
                                   ELSE package_releases
                            /\ release_result' =
                                   IF ~r.result.ok THEN Err
                                   ELSE ReleaseOf(package_releases')
    /\ rpc' = "restore"
    /\ UNCHANGED <<releaseConfigVars, releaseRepoVars, rel_runs, decision, rel_idx,
                   rel_return>>
    /\ ReleaseFrame

\* release_packages: one turn of the loop, release_package_if_needed.
ReleasePackageIfNeeded ==
    /\ rpc = "package"
    /\ LET package == rel_workspace.packages[rel_idx]
           version == PackageVersion(rel_workspace, package)
           tag == git_tag(version)
           last == rel_idx = Len(rel_workspace.packages)
       IN  IF tag_exists(tag)
           THEN /\ release_result' =
                       IF last THEN ReleaseOf(package_releases) ELSE release_result
                /\ rpc' = IF last THEN "restore" ELSE "package"
                /\ rel_idx' = rel_idx + 1
                /\ UNCHANGED <<releaseForgeVars, package_releases, forge_calls,
                               release_names, dry_run_log>>
           ELSE \E tag_outcome \in TagOutcomes, release_ok \in BOOLEAN :
                   LET r == release_package(tag, tag_outcome, release_ok)
                       name == release_name(package, version)
                   IN  /\ local_tags' = r.local
                       /\ remote_tags' = r.remote
                       /\ forge_releases' = r.releases
                       /\ forge_calls' = forge_calls \o r.calls
                       /\ release_names' = release_names \o named(r.calls, name)
                       /\ dry_run_log' = dry_run_log \o r.log
                       /\ package_releases' =
                              IF r.result.ok /\ r.result.value
                              THEN Append(package_releases, PackageRelease(package, version))
                              ELSE package_releases
                       /\ IF ~r.result.ok
                          THEN /\ release_result' = Err
                               /\ rpc' = "restore"
                               /\ UNCHANGED rel_idx
                          ELSE /\ release_result' =
                                      IF last THEN ReleaseOf(package_releases')
                                      ELSE release_result
                               /\ rpc' = IF last THEN "restore" ELSE "package"
                               /\ rel_idx' = rel_idx + 1
    /\ UNCHANGED <<releaseConfigVars, releaseRepoVars, rel_runs, decision, rel_return>>
    /\ ReleaseFrame

\* release restores the previous commit with the result of release_packages
\* withheld until then.
RestoresOnlyAfterSuccess ==
    decision.kind = "YesWithCommit" /\ checkout_done /\ release_result.ok

RestoresPreviousCommit ==
    decision.kind = "YesWithCommit" /\ checkout_done

\* release: back to the previous commit, then the result of release_packages.
Restore ==
    /\ rpc = "restore"
    /\ IF RestoresPreviousCommit
       THEN \E ok \in BOOLEAN :
               /\ checkouts' = Append(checkouts, "-")
               /\ restore_ok' = ok
               /\ repo_head' = IF ok THEN HeadSha ELSE repo_head
               /\ rel_return' = IF ok THEN release_result ELSE Err
               /\ rpc' = IF ok /\ release_result.ok THEN "returned" ELSE "failed"
       ELSE /\ rel_return' = release_result
            /\ rpc' = IF release_result.ok THEN "returned" ELSE "failed"
            /\ UNCHANGED <<checkouts, restore_ok, repo_head>>
    /\ UNCHANGED <<releaseConfigVars, releaseForgeVars, releaseHistoryVars,
                   checkout_done, decision, rel_idx, package_releases, release_result>>
    /\ ReleaseFrame

\* The command is run again on the same commit after a failed run; the tags
\* and the forge keep what the failed run has left.
Rerun ==
    /\ rpc = "failed"
    /\ repo_head = HeadSha
    /\ rel_runs < MaxRuns
    /\ rel_runs' = rel_runs + 1
    /\ rpc' = "fetch"
    /\ decision' = Undecided
    /\ checkout_done' = FALSE
    /\ checkouts' = <<>>
    /\ restore_ok' = FALSE
    /\ rel_idx' = 1
    /\ package_releases' = <<>>
    /\ release_result' = None
    /\ rel_return' = None
    /\ UNCHANGED <<releaseConfigVars, releaseForgeVars, repo_head, forge_calls,
                   release_names, dry_run_log>>
    /\ ReleaseFrame

ReleaseNext ==
    \/ FetchTags
    \/ ShouldReleaseStep
    \/ Checkout
    \/ BeginReleasePackages
    \/ ReleaseUnifiedWorkspace
    \/ ReleasePackageIfNeeded
    \/ Restore
    \/ Rerun

\* ------------------------------------------------------------------------
\* The changelog of the release PR body
\* ------------------------------------------------------------------------
\* A text is a sequence of pieces: whitespace, other text, and the tags the
\* extraction looks for.
Ws == "ws"

Txt == "text"

DetailsOpen == "<details>"

DetailsClose == "</details>"

SummaryOpen == "<summary>"

SummaryClose == "</summary>"

\* Changelog bodies of at most MaxBody pieces without a `<details>` tag.
BodyPieces == {Ws, Txt, DetailsClose, SummaryClose}

Bodies == UNION {[1..n -> BodyPieces] : n \in 0..MaxBody}

\* The pr_body template: the packages, then the changelog inside
\* `<details><summary>Changelog</summary>` and `</details>`, then the footer.
render_pr_body(changelog) ==
    <<Txt, Ws, DetailsOpen, SummaryOpen, Txt, SummaryClose, Ws>>
        \o changelog \o <<Ws, DetailsClose, Ws, Txt>>

\* str::find: the first position of the piece in the text, 0 when absent.
find(text, piece) ==
    LET found == {i \in 1..Len(text) : text[i] = piece}
    IN  IF found = {} THEN 0 ELSE CHOOSE i \in found : \A j \in found : i <= j

\* str::trim
RECURSIVE trim(_)
trim(text) ==
    IF text = <<>> THEN text
    ELSE IF Head(text) = Ws THEN trim(Tail(text))
    ELSE IF text[Len(text)] = Ws THEN trim(SubSeq(text, 1, Len(text) - 1))
    ELSE text

\* extract_changelog_from_pr_body with the summary kept in the result.
extract_changelog_keeps_summary(body) ==
    LET start == find(body, DetailsOpen)
        from_start == IF start = 0 THEN <<>> ELSE SubSeq(body, start, Len(body))
        end == find(from_start, DetailsClose)
    IN  IF start # 0 /\ end # 0
        THEN trim(SubSeq(from_start, 2, end - 1))
        ELSE body

extract_changelog_from_pr_body(body) ==
    LET start == find(body, DetailsOpen)
        from_start == IF start = 0 THEN <<>> ELSE SubSeq(body, start, Len(body))
        end == find(from_start, DetailsClose)
        details_content == SubSeq(from_start, 1, end - 1)
        summary_end == find(details_content, SummaryClose)
    IN  IF start # 0 /\ end # 0 /\ summary_end # 0
        THEN trim(SubSeq(details_content, summary_end + 1, Len(details_content)))
        ELSE body

ExtractIdle ==
    /\ changelog_body = <<>>
    /\ pr_body = <<>>
    /\ extracted_changelog = <<>>
    /\ xpc = "idle"

ExtractInit ==
    /\ changelog_body \in Bodies
    /\ pr_body = <<>>
    /\ extracted_changelog = <<>>
    /\ xpc = "start"

\* The release PR is opened with the rendered body.
RenderPrBody ==
    /\ xpc = "start"
    /\ pr_body' = render_pr_body(changelog_body)
    /\ xpc' = "rendered"
    /\ UNCHANGED <<changelog_body, extracted_changelog>>
    /\ ExtractFrame

\* get_workspace_changelog_entry: the changelog of the release is taken from
\* the body of the release PR.
ExtractChangelog ==
    /\ xpc = "rendered"
    /\ extracted_changelog' = extract_changelog_from_pr_body(pr_body)
    /\ xpc' = "done"
    /\ UNCHANGED <<changelog_body, pr_body>>
    /\ ExtractFrame

ExtractNext ==
    \/ RenderPrBody
    \/ ExtractChangelog

\* ------------------------------------------------------------------------
\* Loading the configuration (ConfigPath)
\* ------------------------------------------------------------------------
DefaultCargoToml == "Cargo.toml"

Paths == {DefaultCargoToml, "ws/Cargo.toml"}

\* A k-releaser metadata section of a Cargo.toml: absent, one that does not
\* deserialize into Config (an unknown field, say), or a valid one.
Sections == {"absent", "invalid", "valid"}

Missing == [kind |-> "missing", workspace |-> "absent", package |-> "absent"]

Unreadable == [kind |-> "unreadable", workspace |-> "absent", package |-> "absent"]

InvalidToml == [kind |-> "invalid_toml", workspace |-> "absent", package |-> "absent"]

TomlFile(w, p) == [kind |-> "toml", workspace |-> w, package |-> p]

FileStates ==
    {Missing, Unreadable, InvalidToml} \cup {TomlFile(w, p) : w \in Sections, p \in Sections}

\* Config::default(), and the configuration deserialized from a file.
DefaultConfig == [from |-> "default"]

FileConfig(path) == [from |-> path]

\* [workspace.metadata.k-releaser] first, then [package.metadata.k-releaser].
metadata(file) ==
    IF file.workspace # "absent" THEN file.workspace ELSE file.package

exists(path) == files[path].kind # "missing"

load_config_from_cargo_toml(path) ==
    LET file == files[path]
    IN  CASE file.kind = "missing" -> Ok(NoneOpt)
          [] file.kind = "unreadable" -> Err
          [] file.kind = "invalid_toml" -> Err
          [] file.kind = "toml" ->
                 IF metadata(file) = "absent" THEN Ok(NoneOpt)
                 ELSE IF metadata(file) = "invalid" THEN Err
                 ELSE Ok(Some(FileConfig(path)))

\* ConfigPath::load_from
load_from(path) ==
    LET res == load_config_from_cargo_toml(path)
    IN  IF res.ok
        THEN IF res.value # NoneOpt THEN Ok(Unwrap(res.value)) ELSE Ok(DefaultConfig)
        ELSE Err

\* ConfigPath::load
load ==
    LET cargo_toml_path ==
            IF config_path # NoneOpt THEN Unwrap(config_path) ELSE DefaultCargoToml
        res == load_config_from_cargo_toml(cargo_toml_path)
    IN  IF res.ok
        THEN IF res.value # NoneOpt THEN Ok(Unwrap(res.value))
             ELSE IF config_path # NoneOpt /\ ~exists(cargo_toml_path) THEN Err
             ELSE Ok(DefaultConfig)
        ELSE IF config_path # NoneOpt THEN Err
        ELSE Ok(DefaultConfig)

has_explicit_path == config_path # NoneOpt

ConfigIdle ==
    /\ config_path = NoneOpt
    /\ manifest_path = NoneOpt
    /\ files = [p \in Paths |-> Missing]
    /\ loaded_config = None
    /\ kpc = "idle"

ConfigInit ==
    /\ config_path \in {NoneOpt} \cup {Some(p) : p \in Paths}
    /\ manifest_path \in {NoneOpt} \cup {Some(p) : p \in Paths}
    /\ files \in [Paths -> FileStates]
    /\ loaded_config = None
    /\ kpc = "start"

\* Release::load_config
LoadConfig ==
    /\ kpc = "start"
    /\ loaded_config' =
           IF has_explicit_path THEN load
           ELSE IF manifest_path # NoneOpt THEN load_from(Unwrap(manifest_path))
           ELSE load
    /\ kpc' = "loaded"
    /\ UNCHANGED <<config_path, manifest_path, files>>
    /\ ConfigFrame

\* show_config: the manifest path comes first.
ShowConfig ==
    /\ kpc = "start"
    /\ loaded_config' =
           IF manifest_path # NoneOpt THEN load_from(Unwrap(manifest_path))
           ELSE load
    /\ kpc' = "shown"
    /\ UNCHANGED <<config_path, manifest_path, files>>
    /\ ConfigFrame

ConfigNext ==
    \/ LoadConfig
    \/ ShowConfig

\* ------------------------------------------------------------------------
\* The number of commits collected on a first release (no release tag)
\* ------------------------------------------------------------------------
\* `git log -<n> --first-parent` on a history of len commits.
git_log_limited(len, n) == IF n < len THEN n ELSE len

\* get_all_commits_since_tag when get_tag_commit finds no tag, by the number
\* of commits it returns.
commits_since_no_tag(len, max) ==
    LET max_commits == IF max = 0 THEN DEFAULT_LIMIT ELSE max
    IN  git_log_limited(len, max_commits)

AnalyzeOptions == {0, MaxCommits, DEFAULT_LIMIT}

HistoryIdle ==
    /\ history_len = 0
    /\ analyze_option = 0
    /\ collected_count = 0
    /\ hpc = "idle"

HistoryInit ==
    /\ history_len \in 1..MaxHistory
    /\ analyze_option \in AnalyzeOptions
    /\ collected_count = 0
    /\ hpc = "start"

CollectCommits ==
    /\ hpc = "start"
    /\ collected_count' = commits_since_no_tag(history_len, analyze_option)
    /\ hpc' = "done"
    /\ UNCHANGED <<history_len, analyze_option>>
    /\ HistoryFrame

HistoryNext == CollectCommits

\* ------------------------------------------------------------------------
\* The contributors of a PR (contributors_from_commits)
\* ------------------------------------------------------------------------
ForgeTypes == {"Github", "Gitea", "Gitlab"}

Author(id, login) == [id |-> id, login |-> login]

\* The account Gitea runs its actions with.
GiteaActionsId == -2

\* Users, an app whose login ends with `[bot]`, and the Gitea actions account.
Authors ==
    {Author(1, "bob"), Author(2, "marco"), Author(3, "release[bot]"),
     Author(GiteaActionsId, "gitea-actions")}

\* author.login.ends_with("[bot]")
ends_with_bot(login) == login \in {"release[bot]"}

\* PrCommit.author: Option<Author>
PrCommitAuthors == {NoneOpt} \cup {Some(a) : a \in Authors}

AuthoredLists == UNION {[1..n -> PrCommitAuthors] : n \in 0..MaxAuthored}

\* Iterator::skip(1)
skip1(s) == IF s = <<>> THEN <<>> ELSE Tail(s)

\* Vec::dedup: removes consecutive repeated elements.
RECURSIVE dedup(_)
dedup(s) ==
    IF Len(s) <= 1 THEN s
    ELSE IF s[1] = s[2] THEN dedup(Tail(s))
    ELSE <<s[1]>> \o dedup(Tail(s))

is_bot(author, forge) ==
    LET is_gitea_actions_account == forge = "Gitea" /\ author.id = GiteaActionsId
    IN  ends_with_bot(author.login) \/ is_gitea_actions_account

RECURSIVE non_bot_logins(_, _)
non_bot_logins(cs, forge) ==
    IF cs = <<>> THEN <<>>
    ELSE IF Head(cs) # NoneOpt /\ ~is_bot(Unwrap(Head(cs)), forge)
         THEN <<Unwrap(Head(cs)).login>> \o non_bot_logins(Tail(cs), forge)
         ELSE non_bot_logins(Tail(cs), forge)

contributors_from_commits(cs, forge) == dedup(non_bot_logins(skip1(cs), forge))

ContributorsIdle ==
    /\ contrib_commits = <<>>
    /\ contrib_forge = "Github"
    /\ contributors = <<>>
    /\ bpc = "idle"

ContributorsInit ==
    /\ contrib_commits \in AuthoredLists
    /\ contrib_forge \in ForgeTypes
    /\ contributors = <<>>
    /\ bpc = "start"

ContributorsFromCommits ==
    /\ bpc = "start"
    /\ contributors' = contributors_from_commits(contrib_commits, contrib_forge)
    /\ bpc' = "done"
    /\ UNCHANGED <<contrib_commits, contrib_forge>>
    /\ ContributorsFrame

ContributorsNext == ContributorsFromCommits

\* ------------------------------------------------------------------------
\* add_labels on Gitea (post_gitea_labels)
\* ------------------------------------------------------------------------
\* Label names; the id of a label is its name.
LabelNames == {"release", "automated"}

\* The lists validate_labels accepts: no label twice.
LabelLists ==
    {ls \in UNION {[1..n -> LabelNames] : n \in 0..MaxLabels} :
        \A i, j \in 1..Len(ls) : ls[i] = ls[j] => i = j}

Range(s) == {s[i] : i \in 1..Len(s)}

\* The loop of get_labels_info_and_categorize_labels.
RECURSIVE categorize(_, _, _, _, _)
categorize(labels, existing, current, to_create, ids) ==
    IF labels = <<>> THEN [labels_to_create |-> to_create, label_ids |-> ids]
    ELSE LET label == Head(labels)
         IN  IF label \in existing
             THEN categorize(Tail(labels), existing, current, to_create,
                             IF label \notin current THEN Append(ids, label) ELSE ids)
             ELSE categorize(Tail(labels), existing, current,
                             IF label \notin Range(to_create)
                             THEN Append(to_create, label) ELSE to_create,
                             ids)

get_labels_info_and_categorize_labels(labels) ==
    categorize(labels, repo_labels, pr_labels, <<>>, <<>>)

\* anyhow::ensure!(!label_ids.is_empty(), ..)
ensure_label_ids(ids) == ids # <<>>

LabelsIdle ==
    /\ label_request = <<>>
    /\ repo_labels = {}
    /\ pr_labels = {}
    /\ labels_to_create = <<>>
    /\ label_ids = <<>>
    /\ labels_created = <<>>
    /\ labels_before = [repo |-> {}, pr |-> {}]
    /\ label_results = <<>>
    /\ lpc = "idle"

\* The labels of a PR are labels of its repository.
LabelsInit ==
    /\ label_request \in LabelLists
    /\ repo_labels \in SUBSET LabelNames
    /\ pr_labels \in SUBSET repo_labels
    /\ labels_to_create = <<>>
    /\ label_ids = <<>>
    /\ labels_created = <<>>
    /\ labels_before = [repo |-> repo_labels, pr |-> pr_labels]
    /\ label_results = <<>>
    /\ lpc = "start"

\* The error of a request the forge did not answer with success.
RequestFailed == [ok |-> FALSE, value |-> <<"request failed">>]

LabelsReturn(result) ==
    /\ label_results' = Append(label_results, result)
    /\ lpc' = "done"

\* add_labels, and post_gitea_labels up to the categorized labels; the two
\* GET requests may fail.
AddLabels ==
    /\ lpc = "start"
    /\ \/ /\ label_request = <<>>
          /\ LabelsReturn(Ok(<<>>))
          /\ UNCHANGED <<labels_to_create, label_ids>>
       \/ /\ label_request # <<>>
          /\ \/ /\ LabelsReturn(RequestFailed)
                /\ UNCHANGED <<labels_to_create, label_ids>>
             \/ LET cat == get_labels_info_and_categorize_labels(label_request)
                IN  /\ labels_to_create' = cat.labels_to_create
                    /\ label_ids' = cat.label_ids
                    /\ lpc' = "create"
                    /\ UNCHANGED label_results
    /\ UNCHANGED <<label_request, repo_labels, pr_labels, labels_created, labels_before>>
    /\ LabelsFrame

\* create_gitea_labels: one POST per label to create; a failed one ends the
\* call and leaves the labels created so far in the repository.
CreateGiteaLabel ==
    /\ lpc = "create"
    /\ labels_to_create # <<>>
    /\ \/ /\ repo_labels' = repo_labels \cup {Head(labels_to_create)}
          /\ labels_created' = Append(labels_created, Head(labels_to_create))
          /\ label_ids' = Append(label_ids, Head(labels_to_create))
          /\ labels_to_create' = Tail(labels_to_create)
          /\ UNCHANGED <<label_results, lpc>>
       \/ /\ LabelsReturn(RequestFailed)
          /\ UNCHANGED <<repo_labels, labels_created, label_ids, labels_to_create>>
    /\ UNCHANGED <<label_request, pr_labels, labels_before>>
    /\ LabelsFrame

\* post_gitea_labels after the labels were created: the ensure! and the POST
\* of the label ids to the PR, which adds them to the labels of the PR.
PostGiteaLabels ==
    /\ lpc = "create"
    /\ labels_to_create = <<>>
    /\ IF ~ensure_label_ids(label_ids)
       THEN LabelsReturn(Err) /\ UNCHANGED pr_labels
       ELSE \/ /\ pr_labels' = pr_labels \cup Range(label_ids)
               /\ LabelsReturn(Ok(<<>>))
            \/ /\ LabelsReturn(RequestFailed)
               /\ UNCHANGED pr_labels
    /\ UNCHANGED <<label_request, repo_labels, labels_to_create, label_ids,
                   labels_created, labels_before>>
    /\ LabelsFrame

\* add_labels is called again with the same labels.
AddLabelsAgain ==
    /\ lpc = "done"
    /\ Len(label_results) < MaxCalls
    /\ labels_before' = [repo |-> repo_labels, pr |-> pr_labels]
    /\ labels_to_create' = <<>>
    /\ label_ids' = <<>>
    /\ lpc' = "start"
    /\ UNCHANGED <<label_request, repo_labels, pr_labels, labels_created, label_results>>
    /\ LabelsFrame

LabelsNext ==
    \/ AddLabels
    \/ CreateGiteaLabel
    \/ PostGiteaLabels
    \/ AddLabelsAgain

\* ------------------------------------------------------------------------
\* The changelog of a forge release (ReleaseInfo.changelog)
\* ------------------------------------------------------------------------
\* The last entry of a changelog file.
FileEntries == {<<Txt>>, <<Txt, Ws, Txt>>}

\* changelog_parser::last_changes: an error, no entry, or the last entry.
LastChanges == {Err, Ok(NoneOpt)} \cup {Ok(Some(e)) : e \in FileEntries}

\* Bodies of a PR: none, the rendered release PR body, a body written by
\* hand.
PrBodies == {NoneOpt, Some(render_pr_body(<<Txt, Ws>>)), Some(<<Txt>>)}

BodyPrs == [release_branch : BOOLEAN, body : PrBodies]

BodyPrLists == UNION {[1..n -> BodyPrs] : n \in 0..MaxPrs}

\* get_workspace_changelog_entry
get_workspace_changelog_entry(prs_answer) ==
    IF ~prs_answer.ok THEN Err
    ELSE LET release_pr == associated_release_pr(prs_answer.value)
         IN  IF release_pr # NoneOpt /\ Unwrap(release_pr).body # NoneOpt
             THEN Ok(extract_changelog_from_pr_body(Unwrap(Unwrap(release_pr).body)))
             ELSE Ok(<<>>)

\* last_changelog_entry
last_changelog_entry(changelog_update, last_changes) ==
    IF ~changelog_update THEN <<>>
    ELSE IF last_changes.ok /\ last_changes.value # NoneOpt
         THEN Unwrap(last_changes.value)
         ELSE <<>>

BodyIdle ==
    /\ body_mode = "per_package"
    /\ body_changelog_update = FALSE
    /\ file_entry = Err
    /\ body_prs = Err
    /\ release_changelog = Err
    /\ ypc = "idle"

BodyInit ==
    /\ body_mode \in {"unified", "per_package"}
    /\ body_changelog_update \in BOOLEAN
    /\ file_entry \in LastChanges
    /\ body_prs \in {Err} \cup {Ok(prs) : prs \in BodyPrLists}
    /\ release_changelog = Err
    /\ ypc = "start"

\* release_unified_workspace, up to ReleaseInfo
UnifiedChangelog ==
    /\ ypc = "start"
    /\ body_mode = "unified"
    /\ release_changelog' = get_workspace_changelog_entry(body_prs)
    /\ ypc' = "done"
    /\ UNCHANGED <<body_mode, body_changelog_update, file_entry, body_prs>>
    /\ BodyFrame

\* release_package_if_needed, up to ReleaseInfo
PackageChangelog ==
    /\ ypc = "start"
    /\ body_mode = "per_package"
    /\ release_changelog' = Ok(last_changelog_entry(body_changelog_update, file_entry))
    /\ ypc' = "done"
    /\ UNCHANGED <<body_mode, body_changelog_update, file_entry, body_prs>>
    /\ BodyFrame

BodyNext ==
    \/ UnifiedChangelog
    \/ PackageChangelog

\* ------------------------------------------------------------------------
\* Publish::publish_request: the k-releaser configuration becomes the
\* PackagesConfig of the publish request, which is then checked against the
\* manifests.
\* ------------------------------------------------------------------------

\* PackageConfig, by its publish options. There is no `publish` key: the
\* structure denies unknown fields.
PackageConfig(allow_dirty, no_verify) ==
    [publish_allow_dirty |-> allow_dirty, publish_no_verify |-> no_verify]

OptBools == {NoneOpt, Some(TRUE), Some(FALSE)}

PackageConfigs == {PackageConfig(d, v) : d \in OptBools, v \in OptBools}

EmptyPackageConfig == PackageConfig(NoneOpt, NoneOpt)

\* Option::or
or(self, default) == IF self # NoneOpt THEN self ELSE default

\* PackageConfig::merge
merge(self, default) ==
    PackageConfig(or(self.publish_allow_dirty, default.publish_allow_dirty),
                  or(self.publish_no_verify, default.publish_no_verify))

\* PublishConfig::default: publishing is enabled.
PublishConfigDefault == TRUE

\* PublishPackageConfig::default
PublishPackageConfigDefault ==
    [publish |-> PublishConfigDefault, no_verify |-> FALSE, allow_dirty |-> FALSE]

\* impl From<PackageConfig> for PublishPackageConfig
PublishPackageConfigFrom(value) ==
    LET cfg == PublishPackageConfigDefault
        cfg1 == IF value.publish_no_verify # NoneOpt
                THEN [cfg EXCEPT !.no_verify = Unwrap(value.publish_no_verify)]
                ELSE cfg
    IN  IF value.publish_allow_dirty # NoneOpt
        THEN [cfg1 EXCEPT !.allow_dirty = Unwrap(value.publish_allow_dirty)]
        ELSE cfg1

\* The command line flags laid over a PackageConfig.
with_flags(config, flags) ==
    PackageConfig(IF flags.allow_dirty THEN Some(TRUE) ELSE config.publish_allow_dirty,
                  IF flags.no_verify THEN Some(TRUE) ELSE config.publish_no_verify)

\* Config::fill_publish_config: the default of the request and one override
\* for every `[[package]]` section.
fill_publish_config(sections, defaults, flags) ==
    [default |-> PublishPackageConfigFrom(with_flags(defaults, flags)),
     overrides |->
        [p \in {q \in Packages : sections[q] # NoneOpt} |->
            PublishPackageConfigFrom(
                with_flags(merge(Unwrap(sections[p]), defaults), flags))]]

\* PackagesConfig::publish_overrides_fields of a request that was built:
\* package with an override -> publish.is_enabled() of the override.
publish_overrides_fields_of(config) ==
    [p \in DOMAIN config.overrides |-> config.overrides[p].publish]

\* PublishRequest::check_publish_fields of a request that was built: None when
\* it passes, else the package the error names.
check_publish_fields_of(config, manifests) ==
    LET publish_fields == publish_overrides_fields_of(config)
        bad == {i \in 1..Len(MetadataPackages) :
                    LET package == MetadataPackages[i]
                    IN  /\ ~is_publishable(manifests[package])
                        /\ package \in DOMAIN publish_fields
                        /\ publish_fields[package]}
    IN  IF bad = {} THEN NoneOpt
        ELSE Some(MetadataPackages[CHOOSE i \in bad : \A j \in bad : i <= j])

CargoPublishFields == {NoneOpt, Some(<<>>), Some(<<"r1">>)}

FillIdle ==
    /\ config_packages = [p \in Packages |-> NoneOpt]
    /\ packages_defaults = EmptyPackageConfig
    /\ cli_flags = [allow_dirty |-> FALSE, no_verify |-> FALSE]
    /\ cargo_publish = [p \in Packages |-> NoneOpt]
    /\ packages_config = NoneOpt
    /\ fields_check = NoneOpt
    /\ fpc = "idle"

FillInit ==
    /\ config_packages \in [Packages -> {NoneOpt} \cup {Some(c) : c \in PackageConfigs}]
    /\ packages_defaults \in {EmptyPackageConfig, PackageConfig(NoneOpt, Some(TRUE))}
    /\ cli_flags \in [allow_dirty : BOOLEAN, no_verify : BOOLEAN]
    /\ cargo_publish \in [Packages -> CargoPublishFields]
    /\ packages_config = NoneOpt
    /\ fields_check = NoneOpt
    /\ fpc = "start"

\* publish_request, up to and with config.fill_publish_config.
FillPublishConfig ==
    /\ fpc = "start"
    /\ packages_config' =
            Some(fill_publish_config(config_packages, packages_defaults, cli_flags))
    /\ fpc' = "filled"
    /\ UNCHANGED <<config_packages, packages_defaults, cli_flags, cargo_publish,
                   fields_check>>
    /\ FillFrame

\* publish_request: req.check_publish_fields()?
CheckPublishFields ==
    /\ fpc = "filled"
    /\ fields_check' = check_publish_fields_of(Unwrap(packages_config), cargo_publish)
    /\ fpc' = IF fields_check' = NoneOpt THEN "passed" ELSE "failed"
    /\ UNCHANGED <<config_packages, packages_defaults, cli_flags, cargo_publish,
                   packages_config>>
    /\ FillFrame

FillNext ==
    \/ FillPublishConfig
    \/ CheckPublishFields

\* ------------------------------------------------------------------------
\* GitClient::edit_pr and GitClient::close_pr
\* ------------------------------------------------------------------------

\* The retries of the client: build_with_max_retries(3).
MaxRetries == 3

\* The request did not get an answer.
TransportError == [answered |-> FALSE, status |-> 0]

\* The forge answered with an HTTP status.
Response(status) == [answered |-> TRUE, status |-> status]

Statuses == {200, 404, 500}

Responses == {TransportError} \cup {Response(s) : s \in Statuses}

\* StatusCode::is_success
is_success(response) == response.answered /\ response.status \in 200..299

\* What RetryTransientMiddleware sends again: requests without an answer and
\* server errors.
is_transient(response) == ~response.answered \/ response.status \in 500..599

\* req.send(): the answer of the last attempt, whatever its status; an error
\* only when there was no answer.
send(attempts) ==
    IF Last(attempts).answered THEN Ok(Last(attempts)) ELSE Err

\* edit_pr: `req.send().await.with_context(..)?; Ok(())`.
edit_pr(attempts) ==
    IF send(attempts).ok THEN Ok(NoneOpt) ELSE Err

EditIdle ==
    /\ edit_forge = "Github"
    /\ edit_op = "edit_pr"
    /\ pr_open = TRUE
    /\ responses = <<>>
    /\ edit_result = None
    /\ closed_logged = FALSE
    /\ epc = "idle"

EditInit ==
    /\ edit_forge \in {"Github", "Gitea", "Gitlab"}
    /\ edit_op \in {"edit_pr", "close_pr"}
    /\ pr_open = TRUE
    /\ responses = <<>>
    /\ edit_result = None
    /\ closed_logged = FALSE
    /\ epc = "start"

\* One attempt of the PATCH / PUT request. The forge closes the PR when it
\* accepts a request that carries the closed state.
SendEditRequest ==
    /\ epc \in {"start", "sending"}
    /\ \E response \in Responses :
           /\ responses' = Append(responses, response)
           /\ pr_open' = IF edit_op = "close_pr" /\ is_success(response)
                         THEN FALSE ELSE pr_open
           /\ epc' = IF is_transient(response) /\ Len(responses) < MaxRetries
                     THEN "sending" ELSE "responded"
    /\ UNCHANGED <<edit_forge, edit_op, edit_result, closed_logged>>
    /\ EditFrame

\* edit_pr returns to its caller.
EditPr ==
    /\ epc = "responded"
    /\ edit_op = "edit_pr"
    /\ edit_result' = edit_pr(responses)
    /\ epc' = "done"
    /\ UNCHANGED <<edit_forge, edit_op, pr_open, responses, closed_logged>>
    /\ EditFrame

\* close_pr: the `?` on edit_pr, then `closed pr #n` is logged.
ClosePr ==
    /\ epc = "responded"
    /\ edit_op = "close_pr"
    /\ edit_result' = edit_pr(responses)
    /\ closed_logged' = edit_result'.ok
    /\ epc' = "done"
    /\ UNCHANGED <<edit_forge, edit_op, pr_open, responses>>
    /\ EditFrame

EditNext ==
    \/ SendEditRequest
    \/ EditPr
    \/ ClosePr

\* ------------------------------------------------------------------------
\* The specifications
\* ------------------------------------------------------------------------
CommandsIdle ==
    /\ VersionIdle /\ UpdateIdle /\ ChangelogIdle
    /\ PublishIdle /\ ReleaseIdle /\ ExtractIdle

AuxIdle == ConfigIdle /\ HistoryIdle /\ ContributorsIdle /\ LabelsIdle /\ BodyIdle /\ FillIdle /\ EditIdle

InitConfig ==
    ConfigInit /\ CommandsIdle /\ HistoryIdle /\ ContributorsIdle /\ LabelsIdle /\ BodyIdle /\ FillIdle /\ EditIdle

InitHistory ==
    HistoryInit /\ CommandsIdle /\ ConfigIdle /\ ContributorsIdle /\ LabelsIdle /\ BodyIdle /\ FillIdle /\ EditIdle

SpecHistory == InitHistory /\ [][HistoryNext]_vars

SpecConfig == InitConfig /\ [][ConfigNext]_vars

InitContributors ==
    ContributorsInit /\ CommandsIdle /\ ConfigIdle /\ HistoryIdle /\ LabelsIdle /\ BodyIdle /\ FillIdle /\ EditIdle

SpecContributors == InitContributors /\ [][ContributorsNext]_vars

InitLabels ==
    LabelsInit /\ CommandsIdle /\ ConfigIdle /\ HistoryIdle /\ ContributorsIdle /\ BodyIdle /\ FillIdle /\ EditIdle

SpecLabels == InitLabels /\ [][LabelsNext]_vars

InitBody ==
    BodyInit /\ CommandsIdle /\ ConfigIdle /\ HistoryIdle /\ ContributorsIdle /\ LabelsIdle /\ FillIdle /\ EditIdle

SpecBody == InitBody /\ [][BodyNext]_vars

InitFill ==
    FillInit /\ CommandsIdle /\ ConfigIdle /\ HistoryIdle /\ ContributorsIdle /\ LabelsIdle /\ BodyIdle /\ EditIdle

SpecFill == InitFill /\ [][FillNext]_vars

InitEdit ==
    EditInit /\ CommandsIdle /\ ConfigIdle /\ HistoryIdle /\ ContributorsIdle /\ LabelsIdle /\ BodyIdle /\ FillIdle

SpecEdit == InitEdit /\ [][EditNext]_vars

InitVersion ==
    VersionInit /\ UpdateIdle /\ ChangelogIdle /\ PublishIdle /\ ReleaseIdle
        /\ ExtractIdle /\ AuxIdle

VersionNext == ResolveVersion

SpecVersion == InitVersion /\ [][VersionNext]_vars

InitUpdate ==
    UpdateInit /\ VersionIdle /\ ChangelogIdle /\ PublishIdle /\ ReleaseIdle
        /\ ExtractIdle /\ AuxIdle

SpecUpdate == InitUpdate /\ [][UpdateNext]_vars

InitChangelog ==
    ChangelogInit /\ VersionIdle /\ UpdateIdle /\ PublishIdle /\ ReleaseIdle
        /\ ExtractIdle /\ AuxIdle

ChangelogNext == SynthesizeChangelog

SpecChangelog == InitChangelog /\ [][ChangelogNext]_vars

InitPublish ==
    PublishInit /\ VersionIdle /\ UpdateIdle /\ ChangelogIdle /\ ReleaseIdle
        /\ ExtractIdle /\ AuxIdle

SpecPublish == InitPublish /\ [][PublishNext]_vars

InitRelease ==
    ReleaseInit /\ VersionIdle /\ UpdateIdle /\ ChangelogIdle /\ PublishIdle
        /\ ExtractIdle /\ AuxIdle

SpecRelease == InitRelease /\ [][ReleaseNext]_vars

InitExtract ==
    ExtractInit /\ VersionIdle /\ UpdateIdle /\ ChangelogIdle /\ PublishIdle
        /\ ReleaseIdle /\ AuxIdle

SpecExtract == InitExtract /\ [][ExtractNext]_vars

\* ------------------------------------------------------------------------
\* Properties of the version resolver
\* ------------------------------------------------------------------------
IsBreakingCommit(m) == ParseOk(m) /\ CommitBreaking(m)

IsFeatCommit(m) == ParseOk(m) /\ CommitType(m) = "feat"

IsIrrelevantCommit(m) ==
    ParseOk(m) /\ ~CommitBreaking(m) /\ CommitType(m) \in IrrelevantTypes

HasBreakingCommit == \E i \in 1..Len(commits) : IsBreakingCommit(commits[i])

OnlyIrrelevantCommits ==
    /\ commits # <<>>
    /\ \A i \in 1..Len(commits) : IsIrrelevantCommit(commits[i])

\* C2: for every version V, with or without a pre-release tag, a non-empty
\* list of non-breaking docs/style/refactor/perf/test/chore/ci commits yields
\* no increment and the next version equals V.
C2_IrrelevantCommitsNoIncrement ==
    (vpc = "done" /\ OnlyIrrelevantCommits)
        => (version_increment = None /\ next_version = current_version)

\* The breaking rule of the claim, taken alone.
BreakingRuleAlone ==
    IF current_version.major >= 1 \/ version_updater.breaking_always_increment_major
    THEN "Major"
    ELSE IF current_version.minor > 0 THEN "Minor"
    ELSE "Patch"

HasCustomMinorMatch ==
    \E i \in 1..Len(commits) :
        /\ commits[i] \in RelevantMessages
        /\ CommitType(commits[i]) \in version_updater.custom_minor_increment_regex

C4_BreakingStrictlyGreater ==
    (vpc = "done" /\ HasBreakingCommit)
        => TripleLess(current_version, next_version)

\* C4 (amended): for every version V without a pre-release tag and every
\* commit list with a breaking commit the next (major, minor, patch) is
\* strictly greater than V's.
C4_BreakingStrictlyGreaterNoPre ==
    (vpc = "done" /\ current_version.pre = 0 /\ HasBreakingCommit)
        => TripleLess(current_version, next_version)

\* A breaking commit of an otherwise irrelevant type bumped 0.0.z.
C4_Witness ==
    /\ vpc = "done"
    /\ current_version.pre = 0
    /\ current_version.major = 0
    /\ current_version.minor = 0
    /\ commits = <<(<<Subject("chore", TRUE)>>)>>
    /\ next_version = increment_patch(current_version)

\* ------------------------------------------------------------------------
\* Properties of the commit stream of `update`
\* ------------------------------------------------------------------------
CollectedHashes == {collected[i].hash : i \in 1..Len(collected)}

\* Commits reachable from HEAD that are neither the tag commit nor one of
\* its ancestors.
CommitsSinceTag == AncestorsOrSelf(HeadCommit) \ AncestorsOrSelf(tag_commit)

DefaultUpdateRequest ==
    /\ max_analyze_commits = 0
    /\ release_commits = NoRegex

\* C1: the commit stream collected since the last release tag contains every
\* commit reachable from HEAD that is not the tag commit or one of its
\* ancestors, second parents of merge commits included; a `feat: x` commit
\* among them bumps the workspace version from 0.1.0 to at least 0.1.1.
C1_CommitStreamFollowsAllParents ==
    (upc = "done" /\ tag_commit # NoCommit)
        => /\ CommitsSinceTag \subseteq CollectedHashes
           /\ (/\ DefaultUpdateRequest
               /\ \E c \in CommitsSinceTag : message[c] = <<Subject("feat", FALSE)>>)
                  => VersionLess(ManifestVersion, manifest_version)

\* ------------------------------------------------------------------------
\* Properties of changelog synthesis
\* ------------------------------------------------------------------------
LastVersionIsNext ==
    /\ old_changelog # NoneOpt
    /\ last_version_from_str(Unwrap(old_changelog)) = Some(cl_next_version)

ObservedPackages == {o[1] : o \in found_published \cup settled}

Position(order, p) == CHOOSE i \in 1..Len(order) : order[i] = p

Listed(p) == \E k \in 1..Len(package_publishes) : package_publishes[k] = p

InvokedOn(p, r) == \E i \in invoked : i.package = p /\ i.registry = r

\* Packages that publish is asked to upload: publishable by their manifest
\* and enabled in the configuration.
ToPublish(p) == is_publishable(manifest_publish[p]) /\ is_publish_enabled(p)

\* C6: in a run without dry_run, cargo publish is started for a package
\* only after each workspace package it depends on (and that the run is to
\* publish) has been seen present in a registry index, by the published
\* check or by the wait after its upload; the packages are handled one at a
\* time in release order.
C6_DependencyObservedBeforePublish ==
    [][~dry_run =>
          \A i \in invoked' \ invoked :
              /\ \A b \in Dependencies[i.package] :
                     ToPublish(b) => b \in ObservedPackages
              /\ \A j \in invoked :
                     Position(ReleaseOrder, j.package) <= Position(ReleaseOrder, i.package)]_vars

\* C7 (as stated): a package the published check found present on a
\* registry is never published to that registry and is not listed as
\* published; a run that uploads nothing prints an empty `published` list.
C7_PresentNeverListed ==
    /\ \A f \in found_published : ~InvokedOn(f[1], f[2]) /\ ~Listed(f[1])
    /\ (ppc = "done" /\ uploaded = {}) => PrintedOutput = [published |-> <<>>]

\* C7 (amended): a package the published check found present on a registry
\* is never published to that registry; a package is listed as published
\* only if the run uploaded it to a registry where the check had not found
\* it; a successful run that uploads nothing prints an empty `published`
\* list.
C7_PresentNeverPublishedThere ==
    /\ \A f \in found_published : ~InvokedOn(f[1], f[2])
    /\ \A p \in Packages :
           Listed(p) => \E u \in settled \ found_published : u[1] = p
    /\ (ppc = "done" /\ uploaded = {})
           => (output = NoneOpt /\ PrintedOutput = [published |-> <<>>])

\* A run that found a package present, started no subprocess and ended
\* with an empty list.
C7_Witness ==
    /\ ppc = "done"
    /\ ~dry_run
    /\ found_published # {}
    /\ \A p \in Packages : is_publish_enabled(p)
    /\ invoked = {}
    /\ PrintedOutput = [published |-> <<>>]

\* C8 (as stated): for every package whose manifest disables publishing
\* while the configuration sets publish = true for it, the command fails
\* with an error naming that package before any index lookup and before any
\* subprocess.
C8_ErrorNamesEveryConflict ==
    ppc \notin {"idle", "start"} =>
        \A p \in Packages :
            Inconsistent(p) =>
                /\ ppc = "failed"
                /\ pub_error = Some([kind |-> "inconsistent_publish", package |-> p])
                /\ queried = {}
                /\ invoked = {}

\* C8 (amended): if some package's manifest disables publishing while the
\* configuration sets publish = true for it, the command fails before any
\* index lookup and before any subprocess, with an error naming the first
\* such package in the order of the workspace metadata.
C8_ErrorNamesFirstConflict ==
    (ppc \notin {"idle", "start"} /\ \E p \in Packages : Inconsistent(p)) =>
        /\ ppc = "failed"
        /\ pub_error # NoneOpt
        /\ Unwrap(pub_error).kind = "inconsistent_publish"
        /\ Inconsistent(Unwrap(pub_error).package)
        /\ \A q \in Packages :
               Inconsistent(q) =>
                   Position(MetadataPackages, Unwrap(pub_error).package)
                       <= Position(MetadataPackages, q)
        /\ queried = {}
        /\ invoked = {}

\* The pre-flight check has failed on package `b`, the only conflict.
C8_Witness ==
    /\ ppc = "failed"
    /\ Inconsistent("b")
    /\ ~Inconsistent("a")
    /\ pub_error = Some([kind |-> "inconsistent_publish", package |-> "b"])
    /\ queried = {}
    /\ invoked = {}

\* Index lookups of the published check for a package on a registry.
Lookups(p, r, index) ==
    {q \in queried : q.package = p /\ q.registry = r /\ q.index = index}

PolledOn(p, r) == {w \in polled : w.package = p /\ w.registry = r}

\* C14: a trusted-publishing token is acquired at most once, a token that
\* was acquired has had its revocation attempted exactly once when publish
\* has returned, however the loop ended, and a failed revocation leaves the
\* result of publish a success.
C14_TokenRevokedOnce ==
    /\ tp_revocations <= 1
    /\ (tp_client # "none" /\ ppc \in {"done", "failed"}) => tp_revocations = 1
    /\ (tp_client = "held" /\ tp_revocations = 1) => ppc = "done"

\* C15: the fallback index is looked up only after the lookup in the
\* primary index has failed; an answer of the fallback is the result of
\* the check, and the fallback is then the index polled after the upload;
\* when the primary fails and the fallback fails or does not exist, the
\* check fails and the package is not published.
C15_FallbackOnlyAfterPrimaryError ==
    \A q \in queried :
        LET p == q.package
            r == q.registry
        IN  /\ q.index = "fallback" =>
                   \E q2 \in Lookups(p, r, "primary") : q2.result = "error"
            /\ (q.index = "fallback" /\ q.result = "present") =>
                   (<<p, r>> \in found_published /\ ~InvokedOn(p, r))
            /\ (q.index = "fallback" /\ q.result = "absent") =>
                   \A w \in PolledOn(p, r) : w.index = "fallback"
            /\ (q.index = "primary" /\ q.result # "error") =>
                   \A w \in PolledOn(p, r) : w.index = "primary"
            /\ ( /\ q.index = "primary"
                 /\ q.result = "error"
                 /\ \A q2 \in Lookups(p, r, "fallback") : q2.result = "error" ) =>
                   /\ ppc = "failed"
                   /\ pub_error = Some([kind |-> "published_check", package |-> p])
                   /\ ~InvokedOn(p, r)

\* A package was uploaded after the fallback index answered the published
\* check, and the fallback index was polled until the package was there.
C15_Witness ==
    \E q \in queried :
        /\ q.index = "fallback"
        /\ q.result = "absent"
        /\ <<q.package, q.registry>> \in settled
        /\ [package |-> q.package, registry |-> q.registry, index |-> "fallback"] \in polled

\* publish has failed on the subprocess or on the wait after the upload.
PublishStepFailed ==
    /\ pub_error # NoneOpt
    /\ Unwrap(pub_error).kind \in {"cargo_publish", "publish_timeout"}

NotAfter(p, failed) == Position(ReleaseOrder, p) <= Position(ReleaseOrder, failed)

\* publish has returned the error and has touched no later package.
FailureStops ==
    PublishStepFailed =>
        /\ ppc = "failed"
        /\ output = NoneOpt
        /\ \A q \in queried : NotAfter(q.package, Unwrap(pub_error).package)
        /\ \A i \in invoked : NotAfter(i.package, Unwrap(pub_error).package)

\* C16: when the publish subprocess of a package fails or the poll after
\* its upload times out, publish returns an error, no package later in
\* release order is checked or published, and what was uploaded stays
\* uploaded.
C16_FailureStopsPublish ==
    [][FailureStops' /\ uploaded \subseteq uploaded' /\ settled \subseteq settled']_vars

\* The poll after the upload of a has timed out after b was published.
C16_Witness ==
    /\ ppc = "failed"
    /\ pub_error = Some([kind |-> "publish_timeout", package |-> "a"])
    /\ <<"b", CratesIo>> \in settled
    /\ <<"a", CratesIo>> \in uploaded

ListedNext(p) == \E k \in 1..Len(package_publishes') : package_publishes'[k] = p

\* The step in which cargo publish has run, and what it gave.
SubprocessRan == ppc = "publish_registry" /\ cmd_output' # NoneOpt

SubprocessFailed ==
    LET out == Unwrap(cmd_output')
    IN  ~out.success \/ ~out.uploading \/ out.error

AlreadyUploaded == Unwrap(cmd_output').already_uploaded

\* The outcome of the subprocess is a failure exactly when its exit status
\* is non-zero, its stderr has no `Uploading` or has `error:`; a failure
\* other than `already uploaded` is fatal, and without a failure the index
\* is polled unless the run is a dry run.
FailureDetection ==
    /\ (SubprocessFailed /\ ~AlreadyUploaded) => ppc' = "failed"
    /\ ~SubprocessFailed =>
           IF dry_run THEN ppc' # "failed" /\ polled' = polled
           ELSE \E w \in polled' :
                    w.package = CurrentPackage /\ w.registry = CurrentRegistry

\* The `already uploaded` failure is a skip: no error, no upload recorded
\* and no poll of the index.
SkipsUpload ==
    /\ ppc' # "failed"
    /\ pub_error' = NoneOpt
    /\ uploaded' = uploaded
    /\ polled' = polled

\* C17 (as stated): failure detection as above; an `already uploaded`
\* failure is a skip and the package is not reported as published.
C17_AlreadyUploadedNeverListed ==
    [][SubprocessRan =>
          /\ FailureDetection
          /\ (SubprocessFailed /\ AlreadyUploaded) =>
                 (SkipsUpload /\ ~ListedNext(CurrentPackage))]_vars

\* C17 (amended): failure detection as above; an `already uploaded`
\* failure is a skip and does not make the package reported as published:
\* the package is reported only if the run has published it to another of
\* its registries.
C17_AlreadyUploadedNotCounted ==
    [][SubprocessRan =>
          /\ FailureDetection
          /\ (SubprocessFailed /\ AlreadyUploaded) =>
                 /\ SkipsUpload
                 /\ ListedNext(CurrentPackage) => package_was_published]_vars

\* cargo publish has exited with status 0 and an `already uploaded` error,
\* and publish goes on without an upload.
C17_Witness ==
    /\ cmd_output # NoneOpt
    /\ Unwrap(cmd_output).success
    /\ Unwrap(cmd_output).error
    /\ Unwrap(cmd_output).already_uploaded
    /\ ppc \in {"check_registry", "finish"}
    /\ uploaded = {}
    /\ pub_error = NoneOpt

\* ------------------------------------------------------------------------
\* Properties of the `release` command
\* ------------------------------------------------------------------------
Decided == decision # Undecided

HasReleasePr == associated_release_pr(associated_prs.value) # NoneOpt

\* The last commit of the release PR exists and is on the original branch.
PrLastCommitInOriginalBranch ==
    /\ pr_commits.value # <<>>
    /\ is_pr_commit_in_original_branch(Last(pr_commits.value))

\* C9 (as stated): should_release returns No exactly when no release PR is
\* associated and release_always is false; with a release PR it returns
\* YesWithCommit(sha of the PR's last commit) if that commit is on the
\* original branch, and Yes otherwise.
C9_YesWithCommitWhenInOriginalBranch ==
    Decided =>
        /\ (decision = No) <=> (~HasReleasePr /\ ~release_always)
        /\ HasReleasePr =>
               decision = IF PrLastCommitInOriginalBranch
                          THEN YesWithCommit(Last(pr_commits.value))
                          ELSE Yes

\* C9 (amended): should_release returns No exactly when no release PR is
\* associated and release_always is false; with a release PR it returns
\* YesWithCommit(sha of the PR's last commit) if that commit is not the
\* current commit and is on the original branch, and Yes otherwise.
C9_YesWithCommitWhenOtherCommit ==
    Decided =>
        /\ (decision = No) <=> (~HasReleasePr /\ ~release_always)
        /\ HasReleasePr =>
               decision = IF /\ PrLastCommitInOriginalBranch
                             /\ Last(pr_commits.value) # HeadSha
                          THEN YesWithCommit(Last(pr_commits.value))
                          ELSE Yes

\* should_release has answered Yes for a release PR whose last commit is the
\* current commit.
C9_Witness ==
    /\ Decided
    /\ HasReleasePr
    /\ PrLastCommitInOriginalBranch
    /\ Last(pr_commits.value) = HeadSha
    /\ decision = Yes

Returned == rpc \in {"returned", "failed"}

\* C10: when release has checked out the PR's last commit, it issues the
\* checkout of the previous commit ("-") once, as its last checkout, before
\* it returns, whether release_packages succeeded or failed, and a restore
\* that git carries out leaves the repository on the commit it started on;
\* when no checkout happened, no restore is issued.
C10_RestoresPreviousCommit ==
    /\ (Returned /\ checkout_done) =>
           /\ checkouts = <<decision.commit, "-">>
           /\ restore_ok => repo_head = HeadSha
    /\ ~checkout_done => \A i \in 1..Len(checkouts) : checkouts[i] # "-"

\* release returns after a failed release_packages with the previous commit
\* checked out again.
C10_Witness ==
    /\ Returned
    /\ checkout_done
    /\ ~release_result.ok
    /\ checkouts = <<"c2", "-">>
    /\ restore_ok
    /\ repo_head = HeadSha

\* The tag release_packages is about to look up.
CheckedTag ==
    LET packages_ == rel_workspace.packages
        package == IF rpc = "unified" THEN packages_[1] ELSE packages_[rel_idx]
    IN  git_tag(PackageVersion(rel_workspace, package))

\* The step skips the package: nothing is created, no call is issued, no
\* error is raised and the loop goes on with the next package.
SkipsPackage ==
    /\ forge_calls' = forge_calls
    /\ UNCHANGED releaseForgeVars
    /\ package_releases' = package_releases
    /\ rpc' = "restore" => release_result'.ok
    /\ rpc = "package" =>
           /\ rel_idx' = rel_idx + 1
           /\ rpc' = IF rel_idx < Len(rel_workspace.packages) THEN "package" ELSE "restore"

CallsFor(tag) == {i \in 1..Len(forge_calls) : forge_calls[i].tag = tag}

FailedAfterTag(tag, r) ==
    /\ \E i \in CallsFor(tag) :
          /\ forge_calls[i].run = r
          /\ forge_calls[i].op \in {"push", "create_tag"}
          /\ forge_calls[i].ok
    /\ \E i \in CallsFor(tag) :
          /\ forge_calls[i].run = r
          /\ forge_calls[i].op = "create_release"
          /\ ~forge_calls[i].ok

\* C12: when a run has created the tag of a package and failed to create
\* its forge release, a later run on the same commit that returns without
\* an error leaves both the tag and the forge release of that tag.
C12_RerunCompletesRelease ==
    \A tag \in TagNames, r \in 1..MaxRuns :
        (FailedAfterTag(tag, r) /\ rel_runs > r /\ rpc = "returned")
            => (tag \in remote_tags /\ tag \in forge_releases)

\* release_packages has come to its end in the current run.
ReleasePackagesDone ==
    \/ rpc = "restore"
    \/ rpc \in {"returned", "failed"} /\ decision.kind \in {"Yes", "YesWithCommit"}

\* Packages release_packages has gone through in the current run without
\* finding their tag.
ProcessedUntagged ==
    LET packages_ == rel_workspace.packages
    IN  IF rpc \in {"fetch", "start", "checkout", "release_packages", "unified"}
        THEN {}
        ELSE IF is_unified_workspace
        THEN IF ReleasePackagesDone /\ release_result.ok THEN {packages_[1]} ELSE {}
        ELSE IF rpc = "package" \/ ReleasePackagesDone
        THEN {packages_[i] : i \in 1..(rel_idx - 1)}
        ELSE {}

LoggedFor(tag) == {i \in 1..Len(dry_run_log) : dry_run_log[i].tag = tag}

\* C13: with dry_run set, release issues no tag creation and no forge
\* release creation, leaves the forge as it was, logs for every package it
\* would have released the operations it would have performed, and reports
\* no package as released.
C13_DryRunNoForgeMutation ==
    rel_dry_run =>
        /\ forge_calls = <<>>
        /\ forge_releases = {}
        /\ package_releases = <<>>
        /\ rpc = "returned" => rel_return = Ok(NoneOpt)
        /\ \A package \in ProcessedUntagged :
               LET tag == git_tag(PackageVersion(rel_workspace, package))
               IN  tag \notin local_tags =>
                       \E i \in LoggedFor(tag) :
                           /\ "tag" \in dry_run_log[i].items_to_skip <=> rel_config.git_tag
                           /\ "release" \in dry_run_log[i].items_to_skip
                                  <=> rel_config.git_release

\* A dry run over two packages has returned with both packages logged.
C13_Witness ==
    /\ rel_dry_run
    /\ rpc = "returned"
    /\ Len(dry_run_log) = 2
    /\ dry_run_log[1].items_to_skip = {"tag", "release"}
    /\ rel_return = Ok(NoneOpt)

\* ------------------------------------------------------------------------
\* Properties of the changelog of the release PR body
\* ------------------------------------------------------------------------
Contains(text, piece) == \E i \in 1..Len(text) : text[i] = piece

\* C18 (as stated): for every changelog body without a `<details>` tag,
\* the changelog extracted from the PR body rendered around it is that body.
C18_ExtractReturnsBody ==
    (xpc = "done" /\ ~Contains(changelog_body, DetailsOpen))
        => extracted_changelog = changelog_body

\* C18 (amended): for every changelog body without a `<details>` and
\* without a `</details>` tag, the changelog extracted from the PR body
\* rendered around it is that body with its leading and trailing
\* whitespace removed.
C18_ExtractReturnsTrimmedBody ==
    ( /\ xpc = "done"
      /\ ~Contains(changelog_body, DetailsOpen)
      /\ ~Contains(changelog_body, DetailsClose) )
        => /\ extracted_changelog = trim(changelog_body)
           /\ (changelog_body # <<>>
               /\ Head(changelog_body) # Ws
               /\ changelog_body[Len(changelog_body)] # Ws)
                  => extracted_changelog = changelog_body

\* A changelog with a `</summary>` in it and whitespace at its end has come
\* back without that whitespace.
C18_Witness ==
    /\ xpc = "done"
    /\ changelog_body = <<Txt, SummaryClose, Ws>>
    /\ extracted_changelog = <<Txt, SummaryClose>>

\* C19: when the commit list is not empty, the version has no pre-release
\* tag and no commit parses as a conventional commit, the increment is
\* patch.
C19_UnparsableCountsAsPatch ==
    ( /\ vpc = "done"
      /\ commits # <<>>
      /\ current_version.pre = 0
      /\ \A i \in 1..Len(commits) : ~ParseOk(commits[i]) )
        => /\ version_increment = "Patch"
           /\ next_version = increment_patch(current_version)

\* C20: the message stored for every collected commit is the commit's full
\* message, so that a commit that parses as a conventional commit in the
\* repository parses as the same conventional commit in the commit stream.
C20_FullMessageStored ==
    upc = "done" =>
        \A i \in 1..Len(collected) :
            LET original == message[collected[i].hash]
                stored == collected[i].message
            IN  /\ stored = original
                /\ ParseOk(original) =>
                       (ParseOk(stored) /\ CommitType(stored) = CommitType(original))

\* ------------------------------------------------------------------------
\* Properties of the token handed to cargo publish
\* ------------------------------------------------------------------------
\* With an explicit --token, cargo publish is started with that token.
ExplicitTokenUsed ==
    token_setup.token => \A i \in invoked : i.token = RequestToken

\* A credential is used only without an explicit token, and it is the one
\* of the registry published to.
CredentialOfTargetRegistry ==
    \A i \in invoked :
        i.token.kind = "credential"
            => ~token_setup.token /\ i.token = Credential(i.registry)

\* Trusted publishing is attempted only with no token and no credential,
\* for crates.io, outside a dry run and inside GitHub Actions.
TrustedPublishingLastResort ==
    /\ tp_acquired > 0 =>
           /\ ~token_setup.token /\ CratesIo \notin token_setup.credentials
           /\ ~dry_run /\ token_setup.github_actions
    /\ \A i \in invoked : i.token = TrustedToken => i.registry = CratesIo

\* C26: with an explicit --token cargo publish is invoked with exactly that
\* token; a registry credential is used only when no explicit token is
\* given and is the credential of the registry being published to; trusted
\* publishing is attempted only when neither exists, the target is
\* crates.io, the run is not a dry run and GITHUB_ACTIONS is set.
C26_TokenPrecedence ==
    /\ ExplicitTokenUsed
    /\ CredentialOfTargetRegistry
    /\ TrustedPublishingLastResort

\* ------------------------------------------------------------------------
\* Properties of the configuration loader
\* ------------------------------------------------------------------------
\* The Cargo.toml the command reads its configuration from.
SelectedPath ==
    IF kpc = "shown"
    THEN IF manifest_path # NoneOpt THEN Unwrap(manifest_path)
         ELSE IF config_path # NoneOpt THEN Unwrap(config_path)
         ELSE DefaultCargoToml
    ELSE IF config_path # NoneOpt THEN Unwrap(config_path)
         ELSE IF manifest_path # NoneOpt THEN Unwrap(manifest_path)
         ELSE DefaultCargoToml

ConfigLoaded == kpc \in {"loaded", "shown"}

IsInvalid(file) ==
    \/ file.kind = "invalid_toml"
    \/ file.kind = "toml" /\ metadata(file) = "invalid"

IsAbsent(file) ==
    \/ file.kind = "missing"
    \/ file.kind = "toml" /\ metadata(file) = "absent"

\* C21: loading the configuration fails whenever the selected Cargo.toml
\* is not valid TOML or carries an invalid k-releaser section, whether the
\* file was selected by --config, by --manifest-path or is the default
\* ./Cargo.toml; the default configuration is returned only when the file
\* or its k-releaser section is absent.
C21_InvalidConfigFails ==
    ConfigLoaded =>
        /\ IsInvalid(files[SelectedPath]) => ~loaded_config.ok
        /\ loaded_config = Ok(DefaultConfig) => IsAbsent(files[SelectedPath])

\* ------------------------------------------------------------------------
\* Properties of the commit limit
\* ------------------------------------------------------------------------
\* C22: with no last-release tag, at most max_analyze_commits commits are
\* collected for the workspace version when the option is n > 0, and the
\* whole history back to the root is collected when the option is 0.
C22_ZeroMeansUnbounded ==
    hpc = "done" =>
        IF analyze_option = 0
        THEN collected_count = history_len
        ELSE collected_count <= analyze_option

\* ------------------------------------------------------------------------
\* Properties of the contributor list
\* ------------------------------------------------------------------------
\* The author of the PR: the author of its first commit.
PrAuthorLogins ==
    IF contrib_commits # <<>> /\ contrib_commits[1] # NoneOpt
    THEN {Unwrap(contrib_commits[1]).login}
    ELSE {}

\* The logins of s that are not in the set excluded, each at its first
\* occurrence.
RECURSIVE FirstSeen(_, _)
FirstSeen(s, excluded) ==
    IF s = <<>> THEN <<>>
    ELSE IF Head(s) \in excluded THEN FirstSeen(Tail(s), excluded)
    ELSE <<Head(s)>> \o FirstSeen(Tail(s), excluded \cup {Head(s)})

\* C23: contributors_from_commits returns each username of the commits
\* that is neither the PR author nor a bot exactly once, in first-seen
\* order; this holds when a contributor's commits are not adjacent and when
\* the PR author authored later commits.
C23_UniqueNonAuthorContributors ==
    bpc = "done" =>
        contributors =
            FirstSeen(non_bot_logins(contrib_commits, contrib_forge), PrAuthorLogins)

\* ------------------------------------------------------------------------
\* Properties of the custom increment regexes
\* ------------------------------------------------------------------------
\* The commit that a custom match is said to stand for: a breaking commit
\* (`chore!`) for a type matching the major regex, a feat commit for a type
\* matching the minor regex, a breaking feat commit for a type matching both.
StandsFor(m, updater) ==
    IF ~ParseOk(m) THEN m
    ELSE LET is_major == CommitType(m) \in updater.custom_major_increment_regex
             is_minor == CommitType(m) \in updater.custom_minor_increment_regex
             type == IF is_minor THEN "feat"
                     ELSE IF is_major /\ CommitType(m) # "feat" THEN "chore"
                     ELSE CommitType(m)
         IN  [m EXCEPT ![1] = Subject(type, m[1].bang \/ is_major)]

WithoutRegexes(updater) ==
    [updater EXCEPT !.custom_major_increment_regex = NoRegex,
                    !.custom_minor_increment_regex = NoRegex]

\* C24: a commit whose type matches the custom minor regex has exactly the
\* effect of a feat commit and one whose type matches the custom major
\* regex exactly the effect of a breaking commit, the pre-1.0 demotion
\* included: the increment is the one the resolver computes, without the
\* regexes, for the commits the matches stand for.
C24_CustomMatchActsAsFeatOrBreaking ==
    vpc = "done" =>
        version_increment =
            from_commits_with_updater(
                WithoutRegexes(version_updater), current_version,
                [i \in 1..Len(commits) |-> StandsFor(commits[i], version_updater)])

\* ------------------------------------------------------------------------
\* Properties of add_labels on Gitea
\* ------------------------------------------------------------------------
LastLabelResult == label_results[Len(label_results)]

\* Number of times a label was created on the forge.
TimesCreated(label) ==
    Cardinality({i \in 1..Len(labels_created) : labels_created[i] = label})

\* A call that succeeded left every requested label on the PR and removed
\* none.
LabelsAttached ==
    (lpc = "done" /\ LastLabelResult.ok) =>
        /\ Range(label_request) \subseteq pr_labels
        /\ labels_before.pr \subseteq pr_labels

\* A label is created only if the repository lacks it, and once.
LabelsCreatedOnce ==
    /\ \A l \in LabelNames : TimesCreated(l) <= 1
    /\ (lpc = "done" /\ LastLabelResult.ok) =>
           \A l \in Range(label_request) : l \in repo_labels

\* A call made with labels that are all attached already succeeds and
\* changes nothing, when the forge answers its requests.
LabelsIdempotent ==
    (/\ lpc = "done"
     /\ Range(label_request) \subseteq labels_before.pr
     /\ LastLabelResult # RequestFailed) =>
        /\ LastLabelResult.ok
        /\ pr_labels = labels_before.pr
        /\ repo_labels = labels_before.repo

\* C25: a successful add_labels on Gitea leaves every requested label
\* attached to the PR, has created each label the repository lacked exactly
\* once and has removed no label of the PR; a second call with the same
\* labels, all attached by then, succeeds and changes nothing.
C25_AddLabelsReconcilesAndRepeats ==
    /\ LabelsAttached
    /\ LabelsCreatedOnce
    /\ (Len(label_results) = MaxCalls /\ label_results[1].ok) => LabelsIdempotent

\* ------------------------------------------------------------------------
\* Properties of the changelog of a forge release
\* ------------------------------------------------------------------------
\* The changelog file is kept and its last entry can be read.
FileYieldsEntry ==
    body_changelog_update /\ file_entry.ok /\ file_entry.value # NoneOpt

\* The changelog block of the body of the release PR of the current commit.
ChangelogOfReleasePr ==
    LET release_pr == associated_release_pr(body_prs.value)
    IN  IF release_pr # NoneOpt /\ Unwrap(release_pr).body # NoneOpt
        THEN extract_changelog_from_pr_body(Unwrap(Unwrap(release_pr).body))
        ELSE <<>>

\* C27: the changelog a forge release body is rendered from is the last
\* entry of the changelog file whenever the file yields one, and otherwise
\* the changelog extracted from the body of the release PR associated with
\* the current commit, in per-package mode and in unified mode.
C27_FileEntryElsePrBody ==
    (ypc = "done" /\ body_prs.ok) =>
        release_changelog =
            Ok(IF FileYieldsEntry THEN Unwrap(file_entry.value) ELSE ChangelogOfReleasePr)

\* ------------------------------------------------------------------------
\* The pre-flight check of the publish command on a k-releaser configuration.
\* ------------------------------------------------------------------------

\* The manifest of the package disables publishing, and its `[[package]]`
\* section sets options, none of which is `publish = true`.
SectionWithoutPublish(p) ==
    /\ ~is_publishable(cargo_publish[p])
    /\ config_packages[p] # NoneOpt
    /\ Unwrap(config_packages[p]) \in PackageConfigs

\* A package without a `[[package]]` section never fails the check.
NoSectionNoComplaint ==
    fields_check # NoneOpt => config_packages[Unwrap(fields_check)] # NoneOpt

\* C28: check_publish_fields considers only `publish` values set explicitly
\* in a `[[package]]` section: it never rejects a package whose manifest
\* disables publishing and whose section sets other options but not
\* `publish = true`.
C28_OnlyExplicitPublishChecked ==
    fpc \in {"passed", "failed"} =>
        \A p \in Packages : SectionWithoutPublish(p) => fields_check # Some(p)

\* ------------------------------------------------------------------------
\* One release for a unified workspace, one release per package otherwise.
\* ------------------------------------------------------------------------

\* The calls of the current run whose operation is one of ops.
RunCalls(ops) ==
    SelectSeq(forge_calls, LAMBDA c : c.run = rel_runs /\ c.op \in ops)

\* package_name of the releases collected, in order.
ReportedNames ==
    [i \in 1..Len(package_releases) |-> package_releases[i].package_name]

IsSubsequence(s, t) ==
    \E f \in [1..Len(s) -> 1..Len(t)] :
        /\ \A i \in 1..Len(s) : s[i] = t[f[i]]
        /\ \A i, j \in 1..Len(s) : i < j => f[i] < f[j]

\* Unified mode: at most one tag and one forge release in a run, a single
\* release reported for `workspace`, named `Version {version}` without a
\* release-name template.
UnifiedReleasedOnce ==
    is_unified_workspace =>
        LET version == PackageVersion(rel_workspace, rel_workspace.packages[1])
        IN  /\ Len(RunCalls({"tag", "create_tag"})) <= 1
            /\ Len(RunCalls({"create_release"})) <= 1
            /\ package_releases \in {<<>>, <<PackageRelease("workspace", version)>>}
            /\ ~rel_config.name_template =>
                   \A i \in 1..Len(release_names) : release_names[i] = VersionName(version)

\* Per-package mode: the releases reported are releases of the packages
\* themselves, in release order.
PackagesReleasedInOrder ==
    ~is_unified_workspace =>
        /\ IsSubsequence(ReportedNames, rel_workspace.packages)
        /\ \A i \in 1..Len(package_releases) :
               package_releases[i] =
                   PackageRelease(ReportedNames[i],
                                  PackageVersion(rel_workspace, ReportedNames[i]))

\* The run went through release_packages and returned without an error.
ReleasedAll ==
    /\ rpc = "returned"
    /\ decision # No
    /\ ~rel_dry_run

\* Per-package mode: a run that succeeds has released every package of its
\* own, but for the packages whose tag was there before the run.
EachPackageReleased ==
    ~is_unified_workspace /\ ReleasedAll =>
        \A i \in 1..Len(rel_workspace.packages) :
            LET package == rel_workspace.packages[i]
                tag == git_tag(PackageVersion(rel_workspace, package))
            IN  \/ \E j \in 1..Len(ReportedNames) : ReportedNames[j] = package
                \/ \A k \in 1..Len(forge_calls) :
                       forge_calls[k].run = rel_runs => forge_calls[k].tag # tag

\* C29: a workspace with more than one publishable package that all share a
\* version gets at most one tag and one forge release per run, reported as
\* the single release `workspace` and named `Version {version}` without a
\* template; in every other case each publishable package is released on
\* its own, in release order.
C29_UnifiedOnceElsePerPackage ==
    /\ UnifiedReleasedOnce
    /\ PackagesReleasedInOrder
    /\ EachPackageReleased

\* ------------------------------------------------------------------------
\* Editing and closing a PR.
\* ------------------------------------------------------------------------

\* The forge refused the request: its last answer has a non-success status.
EditRefused == Last(responses).answered /\ ~is_success(Last(responses))

\* A request the forge did not answer is an error of edit_pr and close_pr.
TransportErrorReturned ==
    epc = "done" /\ ~Last(responses).answered => ~edit_result.ok

\* close_pr reports the PR as closed only if the forge accepted the change.
ClosedOnlyIfAccepted ==
    closed_logged => is_success(Last(responses)) /\ ~pr_open

\* C30: edit_pr and close_pr return an error whenever the forge answers the
\* edit request with a non-success HTTP status, so close_pr reports a PR as
\* closed only if the forge accepted the state change.
C30_EditFailsOnErrorStatus ==
    /\ epc = "done" /\ EditRefused => ~edit_result.ok
    /\ ClosedOnlyIfAccepted

====
